---- MODULE Spec2Model ----
(***************************************************************************)
(* Verification model of the waffle event engine:                          *)
(*   ConcurrencyLimit   - keyed, non-blocking semaphore (concurrency.go)   *)
(*   ConcurrencyGroups  - all-or-nothing set of ConcurrencyLimits          *)
(*   Engine             - event -> action dispatch with admission control  *)
(*   ActionBuilder      - validated registration chain (builder.go)        *)
(* A buffered channel `chan struct{}` of capacity c.limit is modelled by   *)
(* the number of elements it holds; a key missing from the semaphores map  *)
(* is modelled by Absent.                                                  *)
(***************************************************************************)
EXTENDS Integers, Sequences, FiniteSets, TLC

\* ------------------------------------------------------------------ bounds
MaxLimit == 2
NumProcs == 2
MaxCalls == 2
MaxErrs == 3

\* ------------------------------------------------------------- value sets
Users == {"u1", "u2"}
Acts == {"read", "write"}
\* a payload (`data any`) is a pair <<user id, action type>>, as the
\* UserRequest of TestEngine_ConcurrencyGroup_ComplexData
Data == {<<"u1", "read">>, <<"u2", "read">>}
\* the strings a key function can return; "" is the implicit key
Keys == {""} \cup Users \cup Acts
\* key functions: nil, data -> user id, data -> action type
KeyFuncs == {"nil", "user", "action"}
Absent == -1
Limits == 0..MaxLimit
Procs == 1..NumProcs
NoData == <<"", "">>
Calls == 1..MaxCalls
\* context.Background() and a context made by context.WithCancel
Ctxs == {"background", "ctx"}
Senders == {"s1"}
EventKeys == {"e1", "e2"}

\* ---------------------------------------------------------------- gates
\* A gate is one *ConcurrencyLimit object.  Standalone is the object built
\* directly with NewConcurrencyLimit; <<actionKey, groupName>> is the
\* member groupName of the ConcurrencyGroups owned by actionKey.
ActionKeys == {"a1", "a2"}
Names == {"", "user", "action"}
Standalone == <<"limit", "">>
Gates == {Standalone} \cup (ActionKeys \X Names)

VARIABLES
  harness,     \* who drives the package: "limit", "legacy", "groups", "engine",
               \* "builder", "errors", "cancel", "registry", "race", "logged",
               \* "mutable" or "nilgroups"
  limit,       \* [Gates -> Limits]            ConcurrencyLimit.limit
  keyFunc,     \* [Gates -> KeyFuncs]          ConcurrencyLimit.keyFunc
  semaphores,  \* [Gates -> [Keys -> Absent or channel length]]
  lpc,         \* [Procs -> position of a goroutine calling the standalone limit]
  lkey,        \* [Procs -> Keys or "-"] key computed by getKey in the call in progress
  lok,         \* [Procs -> BOOLEAN] `ok` of the map lookup in Release
  lret,        \* [Procs -> "none", "true", "false", "returned"] last return
  holds,       \* [Procs -> Keys or "-"] acquisition the goroutine owns
  stolen,      \* a Release by a goroutine owning nothing took a slot
  gen,         \* [Keys -> number of channels made for the key of the standalone limit]
  lchan,       \* [Procs -> which of them the local `semaphore` refers to, 0 = none]
  orphan,      \* [Keys -> [1..NumProcs -> length of a channel no longer in the map]]
  crashed,     \* the runtime aborted: fatal error: concurrent map writes
  groups,      \* [ActionKeys -> SUBSET Names]  keys of ConcurrencyGroups.groups
  triggers,    \* Engine.triggers: [subset of EventKeys -> Seq(ActionKeys)]
  actions,     \* keys of Engine.actions
  logger,      \* Engine.operationLogger: "nil" or "set"
  reg,         \* the AddActionConfiguration in progress, statement by statement
  errv,        \* an ErrBuilderBadParams value and what Error and Unwrap returned for it
  bret,        \* what the last ActionBuilder.Do returned: "none", "nil" or "error"
  bdo,         \* the last registration chain and the errors its Do returned, kept
               \* until the first Send
  cpc,         \* [Calls -> position of one ConcurrencyGroups.TryAcquire / task]
  caction,     \* [Calls -> ActionKeys] the admission set the call works on
  cdata,       \* [Calls -> Data] payload captured by the call and its closure
  cevent,      \* [Calls -> EventKeys] eventKey argument of the spawnAction of the call
  cctx,        \* [Calls -> Ctxs] ctx argument of the spawnAction of the call
  clog,        \* [Calls -> Seq] what the logger was told about the dispatch so far
  flog,        \* what the logger was told about the dispatch that ended last
  todo,        \* [Calls -> SUBSET Names] groups the range loop has not visited
  acquiredGroups, \* [Calls -> Seq(Names)] acquiredGroups of the call
  ridx,        \* [Calls -> index of the next group in releaseFunc's loop]
  released,    \* [Calls -> the release handed out has been invoked]
  ran,         \* [Calls -> BOOLEAN] the action of this dispatch was started
  snap,        \* held counts when call snap.owner began, kept while no other call
               \* touches a gate, and how that call ended
  spc,         \* [Senders -> position inside Engine.Send]
  squeue,      \* [Senders -> Seq(ActionKeys)] rest of the range over actionKeys
  sdata,       \* [Senders -> Data] payload of the Send in progress
  sevent,      \* [Senders -> EventKeys] event key of the last Send
  sctx,        \* [Senders -> Ctxs] ctx argument of the last Send
  slog,        \* [Senders -> Seq] what the logger was told by the last Send itself
  ctxDone,     \* the contexts that were cancelled
  sbound,      \* [Senders -> number of actions bound when Send looked up]
  sspawned,    \* [Senders -> number of tasks the last Send spawned]
  sdropped,    \* [Senders -> number of dispatches of the last Send that were denied]
  sret,        \* [Senders -> "none", "true", "false"] last return of Send
  scall,       \* [Senders -> call slot of the TryAcquire in progress, or 0]
  panicked     \* a nil function value was called

raceVars == <<gen, lchan, orphan, crashed>>
limitVars == <<lpc, lkey, lok, lret, holds, stolen, raceVars>>
gateVars == <<limit, keyFunc, semaphores>>
callVars == <<cpc, caction, cdata, cevent, cctx, clog, flog, todo, acquiredGroups, ridx, released, ran>>
sendVars == <<spc, squeue, sdata, sevent, sctx, slog, ctxDone, sbound, sspawned, sdropped, sret, scall>>
regVars == <<groups, triggers, actions, bret, bdo, errv, reg, logger>>
vars == <<harness, limit, keyFunc, semaphores, lpc, lkey, lok, lret, holds, stolen,
          gen, lchan, orphan, crashed,
          groups, triggers, actions, bret, bdo, errv, reg, logger, cpc, caction, cdata, cevent,
          cctx, clog, flog, todo,
          acquiredGroups,
          ridx, released, ran, snap, spc, squeue, sdata, sevent, sctx, slog, ctxDone,
          sbound,
          sspawned, sdropped, sret, scall, panicked>>

\* ------------------------------------------------ ConcurrencyLimit (pure)
getKeyOfData(g, d) == d[1]

\* getKey: "" unless a key function is set
getKey(g, d) ==
  IF keyFunc[g] = "nil" THEN ""
  ELSE IF keyFunc[g] = "user" THEN d[1]
  ELSE d[2]

EmptySem == [k \in Keys |-> Absent]

LookupOrCreateFresh(sem, k) ==
  IF sem[k] = Absent THEN [EmptySem EXCEPT ![k] = 0] ELSE sem

\* TryAcquire lines 86-92: get or lazily create the channel of key k
LookupOrCreate(sem, k) ==
  IF sem[k] = Absent THEN [sem EXCEPT ![k] = 0] ELSE sem

SendOkOffByOne(len, cap) == len <= cap

\* select { case semaphore <- struct{}{}: ...; default: ... }
SendOk(len, cap) == len < cap

RecvOkNever(len) == FALSE

\* select { case <-semaphore: ...; default: ... }
RecvOk(len) == len > 0

\* number of slots of key k held in gate g
Held(g, k) == IF semaphores[g][k] = Absent THEN 0 ELSE semaphores[g][k]

\* ConcurrencyLimit.TryAcquire as one step: would the send succeed
TryAcquireOk(g, k) == SendOk(Held(g, k), limit[g])

\* ConcurrencyLimit.TryAcquire as one step: the semaphores map afterwards
TryAcquireSem(g, k) ==
  LET sem == LookupOrCreate(semaphores[g], k) IN
    IF TryAcquireOk(g, k) THEN [sem EXCEPT ![k] = @ + 1] ELSE sem

\* ConcurrencyLimit.Release as one step: the semaphores map afterwards
ReleaseSem(g, k) ==
  LET sem == semaphores[g] IN
    IF sem[k] # Absent /\ RecvOk(sem[k]) THEN [sem EXCEPT ![k] = @ - 1] ELSE sem

\* ------------------------------- direct callers of one ConcurrencyLimit
otherThanLimit == <<regVars, callVars, snap, sendVars, panicked, harness>>

\* ConcurrencyLimit.TryAcquire, lines 84-92
LimitTryAcquireLookup(p, d) ==
  /\ harness = "limit"
  /\ lpc[p] = "idle"
  /\ holds[p] = "-"
  /\ LET k == getKey(Standalone, d) IN
       /\ lkey' = [lkey EXCEPT ![p] = k]
       /\ semaphores' = [semaphores EXCEPT ![Standalone] = LookupOrCreate(@, k)]
       /\ gen' = [gen EXCEPT ![k] = IF semaphores[Standalone][k] = Absent THEN @ + 1 ELSE @]
       /\ lchan' = [lchan EXCEPT ![p] = gen'[k]]
  /\ lpc' = [lpc EXCEPT ![p] = "acq_select"]
  /\ lret' = [lret EXCEPT ![p] = "none"]
  /\ UNCHANGED <<limit, keyFunc, lok, holds, stolen, orphan, crashed, otherThanLimit>>

\* ConcurrencyLimit.TryAcquire, lines 94-99
LimitTryAcquireSelect(p) ==
  /\ lpc[p] = "acq_select"
  /\ LET k == lkey[p]
         len == semaphores[Standalone][k] IN
       IF SendOk(len, limit[Standalone])
       THEN /\ semaphores' = [semaphores EXCEPT ![Standalone][k] = len + 1]
            /\ holds' = [holds EXCEPT ![p] = k]
            /\ lret' = [lret EXCEPT ![p] = "true"]
       ELSE /\ lret' = [lret EXCEPT ![p] = "false"]
            /\ UNCHANGED <<semaphores, holds>>
  /\ lpc' = [lpc EXCEPT ![p] = "idle"]
  /\ lkey' = [lkey EXCEPT ![p] = "-"]
  /\ lchan' = [lchan EXCEPT ![p] = 0]
  /\ UNCHANGED <<limit, keyFunc, lok, stolen, gen, orphan, crashed, otherThanLimit>>

\* ConcurrencyLimit.Release, lines 104-108
LimitReleaseLookup(p, d) ==
  /\ harness = "limit"
  /\ lpc[p] = "idle"
  /\ LET k == getKey(Standalone, d) IN
       /\ lkey' = [lkey EXCEPT ![p] = k]
       /\ lok' = [lok EXCEPT ![p] = semaphores[Standalone][k] # Absent]
  /\ lpc' = [lpc EXCEPT ![p] = "rel_select"]
  /\ lret' = [lret EXCEPT ![p] = "none"]
  /\ UNCHANGED <<gateVars, holds, stolen, raceVars, otherThanLimit>>

\* ConcurrencyLimit.Release, lines 110-118
LimitReleaseSelect(p) ==
  /\ lpc[p] = "rel_select"
  /\ LET k == lkey[p]
         len == semaphores[Standalone][k] IN
       IF lok[p] /\ RecvOk(len)
       THEN /\ semaphores' = [semaphores EXCEPT ![Standalone][k] = len - 1]
            /\ stolen' = (stolen \/ holds[p] # k)
       ELSE UNCHANGED <<semaphores, stolen>>
  /\ holds' = [holds EXCEPT ![p] = IF @ = lkey[p] THEN "-" ELSE @]
  /\ lpc' = [lpc EXCEPT ![p] = "idle"]
  /\ lret' = [lret EXCEPT ![p] = "returned"]
  /\ lkey' = [lkey EXCEPT ![p] = "-"]
  /\ lok' = [lok EXCEPT ![p] = FALSE]
  /\ UNCHANGED <<limit, keyFunc, raceVars, otherThanLimit>>

\* ------------------------------------------------------- initial states
\* NewEngine(operationLogger): the tests of the logging pass a logger, every
\* other Engine is built with nil (or before the logger existed)
Loggers == IF harness = "logged" THEN {"nil", "set"} ELSE {"nil"}

logOperationNever(log, event) == log

\* Engine.logOperation: the logger, if there is one, is told the event
logOperation(log, event) == IF logger # "nil" THEN Append(log, event) ELSE log

\* no AddActionConfiguration is in progress
NoReg == [pc |-> "idle", a |-> "a1", evs |-> <<>>, cg |-> <<>>]

\* no ErrBuilderBadParams value has been built
NoErr == [made |-> FALSE, errors |-> <<>>, hasStr |-> FALSE, str |-> <<>>,
          hasUnw |-> FALSE, unw |-> <<>>]

\* no registration chain has been run
NoDo == [done |-> FALSE, evs |-> <<>>, chain |-> <<>>, key |-> "", action |-> "nil",
         errors |-> <<>>]

NoSnap == [owner |-> 0, held |-> [n \in Names |-> [k \in Keys |-> 0]],
           action |-> "a1", fin |-> "none", ran |-> FALSE, nacq |-> 0]

InitIdle ==
  /\ semaphores = [g \in Gates |-> EmptySem]
  /\ lpc = [p \in Procs |-> "idle"]
  /\ lkey = [p \in Procs |-> "-"]
  /\ lok = [p \in Procs |-> FALSE]
  /\ lret = [p \in Procs |-> "none"]
  /\ holds = [p \in Procs |-> "-"]
  /\ stolen = FALSE
  /\ gen = [k \in Keys |-> 0]
  /\ lchan = [p \in Procs |-> 0]
  /\ orphan = [k \in Keys |-> [g \in Procs |-> 0]]
  /\ crashed = FALSE
  /\ triggers = <<>>
  /\ actions = {}
  /\ bret = "none"
  /\ errv = NoErr
  /\ reg = NoReg
  /\ logger \in Loggers
  /\ bdo = NoDo
  /\ cpc = [c \in Calls |-> "free"]
  /\ caction = [c \in Calls |-> "a1"]
  /\ cdata = [c \in Calls |-> NoData]
  /\ cevent = [c \in Calls |-> "e1"]
  /\ cctx = [c \in Calls |-> "background"]
  /\ clog = [c \in Calls |-> <<>>]
  /\ flog = <<>>
  /\ todo = [c \in Calls |-> {}]
  /\ acquiredGroups = [c \in Calls |-> <<>>]
  /\ ridx = [c \in Calls |-> 0]
  /\ released = [c \in Calls |-> FALSE]
  /\ ran = [c \in Calls |-> FALSE]
  /\ snap = NoSnap
  /\ spc = [s \in Senders |-> "idle"]
  /\ squeue = [s \in Senders |-> <<>>]
  /\ sdata = [s \in Senders |-> NoData]
  /\ sevent = [s \in Senders |-> "e1"]
  /\ sctx = [s \in Senders |-> "background"]
  /\ slog = [s \in Senders |-> <<>>]
  /\ ctxDone = {}
  /\ sbound = [s \in Senders |-> 0]
  /\ sspawned = [s \in Senders |-> 0]
  /\ sdropped = [s \in Senders |-> 0]
  /\ sret = [s \in Senders |-> "none"]
  /\ scall = [s \in Senders |-> 0]
  /\ panicked = FALSE

\* NewConcurrencyLimit(limit, keyFunc), called directly
InitLimit ==
  /\ harness = "limit"
  /\ InitIdle
  /\ groups = [a \in ActionKeys |-> {}]
  /\ \E n \in Limits, kf \in {"nil", "user"} :
       /\ limit = [g \in Gates |-> IF g = Standalone THEN n ELSE 0]
       /\ keyFunc = [g \in Gates |-> IF g = Standalone THEN kf ELSE "nil"]

NextLimit ==
  \/ \E p \in Procs, d \in Data : LimitTryAcquireLookup(p, d)
  \/ \E p \in Procs : LimitTryAcquireSelect(p)
  \/ \E p \in Procs, d \in Data : LimitReleaseLookup(p, d)
  \/ \E p \in Procs : LimitReleaseSelect(p)

SpecLimit == InitLimit /\ [][NextLimit]_vars

\* ------------------- the unexported concurrencyLimit kept in engine.go
\* The map of concurrencyLimit is read and written without a lock.  A
\* channel made for a key can therefore be replaced in the map by one made by
\* another goroutine that also found the key missing; gen counts the channels
\* made for a key, the map holds the latest, and orphan keeps the lengths of
\* the replaced ones for the goroutines that still refer to them.
\* length of the channel the local variable `semaphore` of p refers to
LocalLen(p) ==
  IF lchan[p] = gen[lkey[p]]
  THEN Held(Standalone, lkey[p])
  ELSE orphan[lkey[p]][lchan[p]]

\* concurrencyLimit.TryAcquire (engine.go): key := c.getKey(ctx, data) and
\* semaphore, ok := c.semaphores[key]
LegacyTryAcquireLookup(p, d) ==
  /\ harness = "legacy"
  /\ ~crashed
  /\ lpc[p] = "idle"
  /\ holds[p] = "-"
  /\ LET k == getKey(Standalone, d) IN
       /\ lkey' = [lkey EXCEPT ![p] = k]
       /\ lchan' = [lchan EXCEPT ![p] = gen[k]]
       /\ lpc' = [lpc EXCEPT ![p] =
                    IF semaphores[Standalone][k] # Absent THEN "acq_select" ELSE "acq_create"]
  /\ lret' = [lret EXCEPT ![p] = "none"]
  /\ UNCHANGED <<gateVars, lok, holds, stolen, gen, orphan, crashed, otherThanLimit>>

\* concurrencyLimit.TryAcquire (engine.go): semaphore = make(chan struct{},
\* c.limit); c.semaphores[key] = semaphore, whatever the map holds by now
LegacyTryAcquireCreate(p) ==
  /\ ~crashed
  /\ lpc[p] = "acq_create"
  /\ LET k == lkey[p] IN
       /\ gen' = [gen EXCEPT ![k] = @ + 1]
       /\ lchan' = [lchan EXCEPT ![p] = gen[k] + 1]
       /\ orphan' = IF gen[k] = 0 THEN orphan
                    ELSE [orphan EXCEPT ![k][gen[k]] = Held(Standalone, k)]
       /\ semaphores' = [semaphores EXCEPT ![Standalone][k] = 0]
  /\ lpc' = [lpc EXCEPT ![p] = "acq_select"]
  /\ UNCHANGED <<limit, keyFunc, lkey, lok, lret, holds, stolen, crashed, otherThanLimit>>

\* two goroutines are both about to write the map: the runtime may detect it
\* and abort the program
LegacyConcurrentMapWrites ==
  /\ harness = "legacy"
  /\ ~crashed
  /\ \E p, q \in Procs : p # q /\ lpc[p] = "acq_create" /\ lpc[q] = "acq_create"
  /\ crashed' = TRUE
  /\ UNCHANGED <<gateVars, lpc, lkey, lok, lret, holds, stolen, gen, lchan, orphan,
                 otherThanLimit>>

\* concurrencyLimit.TryAcquire (engine.go): the select on the local channel
LegacyTryAcquireSelect(p) ==
  /\ harness = "legacy"
  /\ ~crashed
  /\ lpc[p] = "acq_select"
  /\ LET k == lkey[p] IN
       IF SendOk(LocalLen(p), limit[Standalone])
       THEN /\ IF lchan[p] = gen[k]
               THEN /\ semaphores' = [semaphores EXCEPT ![Standalone][k] = @ + 1]
                    /\ UNCHANGED orphan
               ELSE /\ orphan' = [orphan EXCEPT ![k][lchan[p]] = @ + 1]
                    /\ UNCHANGED semaphores
            /\ holds' = [holds EXCEPT ![p] = k]
            /\ lret' = [lret EXCEPT ![p] = "true"]
       ELSE /\ lret' = [lret EXCEPT ![p] = "false"]
            /\ UNCHANGED <<semaphores, orphan, holds>>
  /\ lpc' = [lpc EXCEPT ![p] = "idle"]
  /\ lkey' = [lkey EXCEPT ![p] = "-"]
  /\ lchan' = [lchan EXCEPT ![p] = 0]
  /\ UNCHANGED <<limit, keyFunc, lok, stolen, gen, crashed, otherThanLimit>>

\* concurrencyLimit.Release (engine.go): key := c.getKey(ctx, data) and the
\* map read of `<-c.semaphores[key]`; a missing key yields a nil channel
LegacyReleaseLookup(p, d) ==
  /\ harness = "legacy"
  /\ ~crashed
  /\ lpc[p] = "idle"
  /\ LET k == getKey(Standalone, d) IN
       /\ lkey' = [lkey EXCEPT ![p] = k]
       /\ lok' = [lok EXCEPT ![p] = semaphores[Standalone][k] # Absent]
       /\ lchan' = [lchan EXCEPT ![p] = gen[k]]
  /\ lpc' = [lpc EXCEPT ![p] = "rel_recv"]
  /\ lret' = [lret EXCEPT ![p] = "none"]
  /\ UNCHANGED <<gateVars, holds, stolen, gen, orphan, crashed, otherThanLimit>>

\* concurrencyLimit.Release (engine.go): the blocking receive; it can proceed
\* only on a non-nil channel that holds an element
LegacyReleaseRecv(p) ==
  /\ ~crashed
  /\ lpc[p] = "rel_recv"
  /\ lok[p]
  /\ LocalLen(p) > 0
  /\ IF lchan[p] = gen[lkey[p]]
     THEN /\ semaphores' = [semaphores EXCEPT ![Standalone][lkey[p]] = @ - 1]
          /\ UNCHANGED orphan
     ELSE /\ orphan' = [orphan EXCEPT ![lkey[p]][lchan[p]] = @ - 1]
          /\ UNCHANGED semaphores
  /\ stolen' = (stolen \/ holds[p] # lkey[p])
  /\ holds' = [holds EXCEPT ![p] = IF @ = lkey[p] THEN "-" ELSE @]
  /\ lpc' = [lpc EXCEPT ![p] = "idle"]
  /\ lret' = [lret EXCEPT ![p] = "returned"]
  /\ lkey' = [lkey EXCEPT ![p] = "-"]
  /\ lok' = [lok EXCEPT ![p] = FALSE]
  /\ lchan' = [lchan EXCEPT ![p] = 0]
  /\ UNCHANGED <<limit, keyFunc, gen, crashed, otherThanLimit>>

\* newConcurrencyLimit(limit, keyFunc)
InitLegacy ==
  /\ harness = "legacy"
  /\ InitIdle
  /\ groups = [a \in ActionKeys |-> {}]
  /\ \E n \in Limits, kf \in {"nil", "user"} :
       /\ limit = [g \in Gates |-> IF g = Standalone THEN n ELSE 0]
       /\ keyFunc = [g \in Gates |-> IF g = Standalone THEN kf ELSE "nil"]

NextLegacy ==
  \/ \E p \in Procs, d \in Data : LegacyTryAcquireLookup(p, d)
  \/ \E p \in Procs : LegacyTryAcquireCreate(p)
  \/ LegacyConcurrentMapWrites
  \/ \E p \in Procs : LegacyTryAcquireSelect(p)
  \/ \E p \in Procs, d \in Data : LegacyReleaseLookup(p, d)
  \/ \E p \in Procs : LegacyReleaseRecv(p)

SpecLegacy == InitLegacy /\ [][NextLegacy]_vars


\* --------------------------------------------------- ConcurrencyGroups
\* A configuration is the groups map: name -> [limit, keyFunc]
NewConcurrencyGroups == [n \in {} |-> [limit |-> 0, keyFunc |-> "nil"]]

\* c.groups[""] = NewConcurrencyLimit(limit, nil)
AddGlobalLimit(cg, n) ==
  [x \in DOMAIN cg \cup {""} |->
     IF x = "" THEN [limit |-> n, keyFunc |-> "nil"] ELSE cg[x]]

\* c.groups[groupName] = NewConcurrencyLimit(limit, keyFunc)
Add(cg, name, n, kf) ==
  [x \in DOMAIN cg \cup {name} |->
     IF x = name THEN [limit |-> n, keyFunc |-> kf] ELSE cg[x]]

\* ActionConfiguration.ConcurrencyGroups left out: the zero value of the
\* pointer, a nil *ConcurrencyGroups, which has no member of any name
NilConcurrencyGroups == [n \in {"<nil>"} |-> [limit |-> 0, keyFunc |-> "nil"]]

\* the configurations explored, built the way the tests build them
Configs ==
  {NewConcurrencyGroups}
  \cup {AddGlobalLimit(NewConcurrencyGroups, n) : n \in Limits}
  \cup {Add(AddGlobalLimit(NewConcurrencyGroups, 0), "user", 1, "user")}
  \cup {Add(Add(NewConcurrencyGroups, "user", 1, "user"), "action", 1, "action")}

SmallConfigs == {NewConcurrencyGroups, AddGlobalLimit(NewConcurrencyGroups, 1)}

\* held counts of every member of the admission set of action a
HeldIn(a) == [n \in Names |-> [k \in Keys |-> Held(<<a, n>>, k)]]

\* the snapshot (kept for the engine's calls) survives only while no other
\* call touches a gate
KeepSnap(c) == IF snap.owner = c THEN snap ELSE NoSnap

\* how the call of slot c ended, noted in the snapshot when it is the call's
Fin(c, how) ==
  IF snap.owner = c
  THEN [snap EXCEPT !.fin = how, !.ran = ran[c], !.nacq = Len(acquiredGroups[c])]
  ELSE snap

\* the call of slot c is over: its goroutine ended, its locals are gone
FreeCall(c) ==
  /\ cpc' = [cpc EXCEPT ![c] = "free"]
  /\ caction' = [caction EXCEPT ![c] = "a1"]
  /\ cdata' = [cdata EXCEPT ![c] = NoData]
  /\ cevent' = [cevent EXCEPT ![c] = "e1"]
  /\ cctx' = [cctx EXCEPT ![c] = "background"]
  /\ clog' = [clog EXCEPT ![c] = <<>>]
  /\ todo' = [todo EXCEPT ![c] = {}]
  /\ acquiredGroups' = [acquiredGroups EXCEPT ![c] = <<>>]
  /\ ridx' = [ridx EXCEPT ![c] = 0]
  /\ released' = [released EXCEPT ![c] = FALSE]
  /\ ran' = [ran EXCEPT ![c] = FALSE]

\* the calls are dispatches of an Engine, not calls of a client of the set
EngineDriven ==
  harness \in {"engine", "builder", "cancel", "registry", "race", "logged", "mutable",
               "nilgroups"}

\* a call slot whose call is over, or whose results the client dropped
Reusable(c) ==
  \/ cpc[c] = "free"
  \/ harness = "groups" /\ cpc[c] = "denied"
  \/ harness = "groups" /\ cpc[c] = "granted" /\ released[c]

FreeSlots == {c \in Calls : Reusable(c)}

GrantsEmptyNever(members) == FALSE

\* the range loop over no groups leaves canRun true
GrantsEmpty(members) == members = {}

\* ConcurrencyGroups.TryAcquire, lines 37-41, by a new call in slot c
GroupsTryAcquireBegin(c, a, d) ==
  /\ c \in FreeSlots
  /\ \A c2 \in FreeSlots : c <= c2
  /\ cpc' = [cpc EXCEPT ![c] = IF GrantsEmpty(groups[a]) THEN "granted" ELSE "iter"]
  /\ caction' = [caction EXCEPT ![c] = a]
  /\ cdata' = [cdata EXCEPT ![c] = d]
  /\ todo' = [todo EXCEPT ![c] = groups[a]]
  /\ acquiredGroups' = [acquiredGroups EXCEPT ![c] = <<>>]
  /\ ridx' = [ridx EXCEPT ![c] = 0]
  /\ released' = [released EXCEPT ![c] = FALSE]
  /\ ran' = [ran EXCEPT ![c] = FALSE]
  /\ snap' = IF EngineDriven
             THEN [NoSnap EXCEPT !.owner = c, !.held = HeldIn(a), !.action = a]
             ELSE snap
  /\ UNCHANGED gateVars

\* ConcurrencyGroups.TryAcquire, lines 42-49 and 57-62: one pass of the range
\* loop, over any group not yet visited (Go's map order is unspecified)
GroupsTryAcquireIter(c) ==
  /\ cpc[c] = "iter"
  /\ \E n \in todo[c] :
       LET g == <<caction[c], n>>
           k == getKey(g, cdata[c]) IN
         /\ semaphores' = [semaphores EXCEPT ![g] = TryAcquireSem(g, k)]
         /\ IF TryAcquireOk(g, k)
            THEN /\ acquiredGroups' = [acquiredGroups EXCEPT ![c] = Append(@, n)]
                 /\ todo' = [todo EXCEPT ![c] = @ \ {n}]
                 /\ cpc' = [cpc EXCEPT ![c] = IF todo[c] = {n} THEN "granted" ELSE "iter"]
                 /\ UNCHANGED <<ridx, cdata>>
            ELSE /\ todo' = [todo EXCEPT ![c] = {}]
                 /\ IF acquiredGroups[c] = <<>>
                    THEN /\ cpc' = [cpc EXCEPT ![c] = "denied"]
                         /\ cdata' = [cdata EXCEPT ![c] = NoData]
                         /\ UNCHANGED ridx
                    ELSE /\ cpc' = [cpc EXCEPT ![c] = "rollback"]
                         /\ ridx' = [ridx EXCEPT ![c] = 1]
                         /\ UNCHANGED cdata
                 /\ UNCHANGED acquiredGroups
  /\ snap' = KeepSnap(c)
  /\ UNCHANGED <<limit, keyFunc, caction, cevent, cctx, clog, flog, released, ran,
                 limitVars, regVars, sendVars, panicked, harness>>

\* group.Release(ctx, data) on the ridx-th acquired group (lines 52-54)
ReleaseOne(c) ==
  LET g == <<caction[c], acquiredGroups[c][ridx[c]]>>
      k == getKey(g, cdata[c]) IN
    semaphores' = [semaphores EXCEPT ![g] = ReleaseSem(g, k)]

\* ConcurrencyGroups.TryAcquire, lines 61-62: releaseFunc() after a denial
GroupsRollback(c) ==
  /\ cpc[c] = "rollback"
  /\ ReleaseOne(c)
  /\ IF ridx[c] = Len(acquiredGroups[c])
     THEN /\ cpc' = [cpc EXCEPT ![c] = "denied"]
          /\ ridx' = [ridx EXCEPT ![c] = 0]
          /\ cdata' = [cdata EXCEPT ![c] = NoData]
          /\ acquiredGroups' = [acquiredGroups EXCEPT ![c] = <<>>]
          /\ snap' = [KeepSnap(c) EXCEPT !.nacq = IF snap.owner = c
                                                  THEN Len(acquiredGroups[c]) ELSE @]
     ELSE /\ ridx' = [ridx EXCEPT ![c] = @ + 1]
          /\ snap' = KeepSnap(c)
          /\ UNCHANGED <<cpc, cdata, acquiredGroups>>
  /\ UNCHANGED <<limit, keyFunc, caction, cevent, cctx, clog, flog, todo, released, ran,
                 limitVars, regVars, sendVars, panicked, harness>>

\* releaseFunc, lines 51-55, invoked by a caller that was granted
ReleaseStep(c) ==
  /\ cpc[c] = "releasing"
  /\ ReleaseOne(c)
  /\ IF ridx[c] < Len(acquiredGroups[c])
     THEN /\ ridx' = [ridx EXCEPT ![c] = @ + 1]
          /\ snap' = KeepSnap(c)
          /\ UNCHANGED <<cpc, caction, cevent, cctx, clog, flog, cdata, todo, acquiredGroups, released, ran>>
     ELSE IF EngineDriven
     THEN /\ FreeCall(c)
          /\ flog' = logOperation(clog[c], "waffle.concurrency.released")
          /\ snap' = IF snap.owner = c THEN Fin(c, "done") ELSE NoSnap
     ELSE /\ cpc' = [cpc EXCEPT ![c] = "granted"]
          /\ ridx' = [ridx EXCEPT ![c] = 0]
          /\ released' = [released EXCEPT ![c] = TRUE]
          /\ snap' = KeepSnap(c)
          /\ UNCHANGED <<caction, cevent, cctx, clog, flog, cdata, todo, acquiredGroups, ran>>
  /\ UNCHANGED <<limit, keyFunc, limitVars, regVars, sendVars, panicked, harness>>

\* ------------------------------ direct callers of one ConcurrencyGroups
\* groups.TryAcquire(ctx, data) called by a client, as concurrency_test.go does
ClientTryAcquire(c, d) ==
  /\ harness = "groups"
  /\ ~panicked
  /\ GroupsTryAcquireBegin(c, "a1", d)
  /\ UNCHANGED <<cevent, cctx, clog, flog, limitVars, regVars, sendVars, panicked, harness>>

\* the client calls the release it was handed with a grant
ClientRelease(c) ==
  /\ harness = "groups"
  /\ ~panicked
  /\ cpc[c] = "granted"
  /\ IF acquiredGroups[c] # <<>>
     THEN /\ cpc' = [cpc EXCEPT ![c] = "releasing"]
          /\ ridx' = [ridx EXCEPT ![c] = 1]
          /\ UNCHANGED <<caction, cevent, cctx, clog, flog, cdata, todo, acquiredGroups, released, ran>>
     ELSE /\ released' = [released EXCEPT ![c] = TRUE]
          /\ UNCHANGED <<cpc, caction, cevent, cctx, clog, flog, cdata, todo, acquiredGroups, ridx, ran>>
  /\ UNCHANGED <<gateVars, snap, limitVars, regVars, sendVars, panicked, harness>>

\* the client calls the release it was handed with a denial: `return false, nil`
\* hands back a nil func, and calling a nil func panics
ClientReleaseDenied(c) ==
  /\ harness = "groups"
  /\ ~panicked
  /\ cpc[c] = "denied"
  /\ cpc' = [cpc EXCEPT ![c] = "panic"]
  /\ panicked' = TRUE
  /\ UNCHANGED <<gateVars, caction, cevent, cctx, clog, flog, cdata, todo, acquiredGroups, ridx, released,
                 ran, snap, limitVars, regVars, sendVars, harness>>

\* NewConcurrencyGroups() followed by AddGlobalLimit / Add
InitGroups ==
  /\ harness = "groups"
  /\ InitIdle
  /\ \E cg \in Configs :
       /\ groups = [a \in ActionKeys |-> IF a = "a1" THEN DOMAIN cg ELSE {}]
       /\ limit = [g \in Gates |->
                     IF g[1] = "a1" /\ g[2] \in DOMAIN cg THEN cg[g[2]].limit ELSE 0]
       /\ keyFunc = [g \in Gates |->
                       IF g[1] = "a1" /\ g[2] \in DOMAIN cg THEN cg[g[2]].keyFunc ELSE "nil"]

NextGroups ==
  \/ \E c \in Calls, d \in Data : ClientTryAcquire(c, d)
  \/ \E c \in Calls : ~panicked /\ GroupsTryAcquireIter(c)
  \/ \E c \in Calls : ~panicked /\ GroupsRollback(c)
  \/ \E c \in Calls : ClientRelease(c)
  \/ \E c \in Calls : ~panicked /\ ReleaseStep(c)
  \/ \E c \in Calls : ClientReleaseDenied(c)

SpecGroups == InitGroups /\ [][NextGroups]_vars

\* groups.Add("global", 1, nil) of TestConcurrencyGroups_NoKeyFunc: a named
\* group without a key function, alone and next to the global limit
NoKeyConfigs ==
  {Add(NewConcurrencyGroups, "user", 1, "nil"),
   Add(AddGlobalLimit(NewConcurrencyGroups, MaxLimit), "user", 1, "nil")}

InitNoKey ==
  /\ harness = "groups"
  /\ InitIdle
  /\ \E cg \in NoKeyConfigs :
       /\ groups = [a \in ActionKeys |-> IF a = "a1" THEN DOMAIN cg ELSE {}]
       /\ limit = [g \in Gates |->
                     IF g[1] = "a1" /\ g[2] \in DOMAIN cg THEN cg[g[2]].limit ELSE 0]
       /\ keyFunc = [g \in Gates |->
                       IF g[1] = "a1" /\ g[2] \in DOMAIN cg THEN cg[g[2]].keyFunc ELSE "nil"]

SpecNoKey == InitNoKey /\ [][NextGroups]_vars

\* ---------------------------------------------------------------- Engine
\* e.triggers[eventKey] = append(e.triggers[eventKey], actionKey)
AppendTrigger(tr, ev, a) ==
  [x \in DOMAIN tr \cup {ev} |->
     IF x = ev
     THEN (IF ev \in DOMAIN tr THEN Append(tr[ev], a) ELSE <<a>>)
     ELSE tr[x]]

AppendTriggersFirstOnly(tr, evs, a) ==
  IF evs = <<>> THEN tr ELSE AppendTrigger(tr, Head(evs), a)

\* the loop of AddActionConfiguration over configuration.EventKeys
RECURSIVE AppendTriggers(_, _, _)
AppendTriggers(tr, evs, a) ==
  IF evs = <<>> THEN tr
  ELSE AppendTriggers(AppendTrigger(tr, Head(evs), a), Tail(evs), a)

\* Engine.AddActionConfiguration, called while no Send is in progress (the
\* registry maps are not synchronised) and once for every action key
AddActionConfiguration(evs, a, cg) ==
  /\ harness \in {"engine", "cancel", "registry", "logged", "mutable", "nilgroups"}
  /\ \A s \in Senders : spc[s] = "idle"
  /\ a \notin actions
  /\ actions' = actions \cup {a}
  /\ triggers' = AppendTriggers(triggers, evs, a)
  /\ groups' = [groups EXCEPT ![a] = DOMAIN cg]
  /\ limit' = [g \in Gates |->
                 IF g[1] = a /\ g[2] \in DOMAIN cg THEN cg[g[2]].limit ELSE limit[g]]
  /\ keyFunc' = [g \in Gates |->
                   IF g[1] = a /\ g[2] \in DOMAIN cg THEN cg[g[2]].keyFunc ELSE keyFunc[g]]
  /\ UNCHANGED <<semaphores, bret, bdo, errv, reg, logger, limitVars, callVars, snap, sendVars, panicked,
                 harness>>

\* Engine.Send(ctx, eventKey, data), lines 74-77, with x for ctx
SendFrom(s, x, e, d) ==
  /\ spc[s] = "idle"
  /\ sevent' = [sevent EXCEPT ![s] = e]
  /\ sctx' = [sctx EXCEPT ![s] = x]
  /\ slog' = [slog EXCEPT ![s] = IF e \in DOMAIN triggers
                                  THEN logOperation(<<>>, "waffle.event.received")
                                  ELSE <<>>]
  /\ UNCHANGED ctxDone
  /\ sspawned' = [sspawned EXCEPT ![s] = 0]
  /\ sdropped' = [sdropped EXCEPT ![s] = 0]
  /\ IF e \in DOMAIN triggers
     THEN /\ Cardinality(FreeSlots) >= Len(triggers[e])
          /\ spc' = [spc EXCEPT ![s] = "loop"]
          /\ squeue' = [squeue EXCEPT ![s] = triggers[e]]
          /\ sdata' = [sdata EXCEPT ![s] = d]
          /\ sbound' = [sbound EXCEPT ![s] = Len(triggers[e])]
          /\ sret' = [sret EXCEPT ![s] = "none"]
     ELSE /\ sret' = [sret EXCEPT ![s] = "false"]
          /\ sbound' = [sbound EXCEPT ![s] = 0]
          /\ UNCHANGED <<spc, squeue, sdata>>
  /\ UNCHANGED <<scall, gateVars, limitVars, regVars, callVars, snap, panicked, harness>>

\* Engine.Send called with a context nobody cancels
SendLookup(s, e, d) ==
  /\ harness \in {"engine", "registry", "race", "logged", "nilgroups"}
  /\ SendFrom(s, "background", e, d)

RangeRestBreak(q) == <<>>

RangeRestStay(q) == q

\* Engine.Send, lines 86-88: spawnAction has returned, whatever it did, and
\* the range loop goes on with the action keys that are left
RangeRest(q) == Tail(q)

\* e.actionConcurrencyLimits[a] has been written; before that the map lookup
\* of line 123 yields a nil *ConcurrencyGroups
LimitsStored(a) ==
  /\ ~(reg.pc # "idle" /\ reg.a = a)
  /\ groups[a] # DOMAIN NilConcurrencyGroups

\* Engine.spawnAction, lines 106-125, for the next action key of the loop;
\* len(groups.groups) on a nil groups is a nil pointer dereference
SpawnActionBegin(s) ==
  /\ spc[s] = "loop"
  /\ squeue[s] # <<>>
  /\ LET a == Head(squeue[s]) IN
       IF a \notin actions
       THEN /\ squeue' = [squeue EXCEPT ![s] = RangeRest(@)]
            /\ slog' = [slog EXCEPT ![s] = logOperation(@, "waffle.action.spawn_failed")]
            /\ UNCHANGED <<spc, scall, sspawned, callVars, snap, gateVars, panicked>>
       ELSE IF ~LimitsStored(a)
       THEN /\ panicked' = TRUE
            /\ UNCHANGED <<squeue, slog, spc, scall, sspawned, callVars, snap, gateVars>>
       ELSE \E c \in FreeSlots :
              /\ UNCHANGED <<panicked, slog, flog>>
              /\ clog' = [clog EXCEPT ![c] = logOperation(<<>>, "waffle.action.spawned")]
              /\ \A c2 \in FreeSlots : c <= c2
              /\ IF Cardinality(groups[a]) > 0
                 THEN /\ GroupsTryAcquireBegin(c, a, sdata[s])
                      /\ cevent' = [cevent EXCEPT ![c] = sevent[s]]
                      /\ cctx' = [cctx EXCEPT ![c] = sctx[s]]
                      /\ spc' = [spc EXCEPT ![s] = "acquiring"]
                      /\ scall' = [scall EXCEPT ![s] = c]
                      /\ UNCHANGED <<squeue, sspawned>>
                 ELSE /\ cpc' = [cpc EXCEPT ![c] = "spawned"]
                      /\ caction' = [caction EXCEPT ![c] = a]
                      /\ cdata' = [cdata EXCEPT ![c] = sdata[s]]
                      /\ cevent' = [cevent EXCEPT ![c] = sevent[s]]
                      /\ cctx' = [cctx EXCEPT ![c] = sctx[s]]
                      /\ released' = [released EXCEPT ![c] = FALSE]
                      /\ ran' = [ran EXCEPT ![c] = FALSE]
                      /\ squeue' = [squeue EXCEPT ![s] = RangeRest(@)]
                      /\ sspawned' = [sspawned EXCEPT ![s] = @ + 1]
                      /\ snap' = NoSnap
                      /\ UNCHANGED <<todo, acquiredGroups, ridx, spc, scall, gateVars>>
  /\ UNCHANGED <<sdata, sevent, sctx, ctxDone, sbound, sdropped, sret, limitVars, regVars,
                 harness>>

SpawnsAlways(acquired) == TRUE

\* spawnAction lines 126-137: the goroutine is started only when acquired
Spawns(acquired) == acquired

\* Engine.spawnAction, lines 126-161, once TryAcquire has returned
SpawnActionFinish(s) ==
  /\ spc[s] = "acquiring"
  /\ LET c == scall[s] IN
       /\ cpc[c] \in {"granted", "denied"}
       /\ IF Spawns(cpc[c] = "granted")
          THEN /\ cpc' = [cpc EXCEPT ![c] = "spawned"]
               /\ sspawned' = [sspawned EXCEPT ![s] = @ + 1]
               /\ clog' = [clog EXCEPT ![c] =
                             IF cpc[c] = "granted"
                             THEN logOperation(@, "waffle.concurrency.acquire_success")
                             ELSE logOperation(@, "waffle.concurrency.acquire_failed")]
               /\ UNCHANGED <<caction, cevent, cctx, flog, cdata, todo, acquiredGroups, ridx, released,
                              ran, snap, sdropped>>
          ELSE /\ FreeCall(c)
               /\ flog' = logOperation(clog[c], "waffle.concurrency.acquire_failed")
               /\ snap' = Fin(c, "dropped")
               /\ sdropped' = [sdropped EXCEPT ![s] = @ + 1]
               /\ UNCHANGED sspawned
  /\ spc' = [spc EXCEPT ![s] = "loop"]
  /\ scall' = [scall EXCEPT ![s] = 0]
  /\ squeue' = [squeue EXCEPT ![s] = RangeRest(@)]
  /\ UNCHANGED <<gateVars, sdata, sevent, sctx, slog, ctxDone, sbound, sret, limitVars, regVars,
                 panicked, harness>>

SendResultIfSpawned(n) == IF n > 0 THEN "true" ELSE "false"

\* Engine.Send line 90: `return true` whatever spawnAction did
SendResult(n) == "true"

\* Engine.Send, lines 86-90: the range loop is over
SendReturn(s) ==
  /\ spc[s] = "loop"
  /\ squeue[s] = <<>>
  /\ spc' = [spc EXCEPT ![s] = "idle"]
  /\ sret' = [sret EXCEPT ![s] = SendResult(sspawned[s])]
  /\ sdata' = [sdata EXCEPT ![s] = NoData]
  /\ UNCHANGED <<squeue, sevent, sctx, slog, ctxDone, sbound, sspawned, sdropped, scall, gateVars, limitVars,
                 regVars,
                 callVars, snap, panicked, harness>>

\* the goroutine of lines 152-161 is scheduled and calls action(ctx, data)
TaskStart(c) ==
  /\ cpc[c] = "spawned"
  /\ cpc' = [cpc EXCEPT ![c] = "running"]
  /\ ran' = [ran EXCEPT ![c] = TRUE]
  /\ clog' = [clog EXCEPT ![c] = logOperation(@, "waffle.action.started")]
  /\ UNCHANGED <<gateVars, caction, cevent, cctx, flog, cdata, todo, acquiredGroups, ridx, released,
                 snap, limitVars, regVars, sendVars, panicked, harness>>

\* what an action returns
ActionResults == {"nil", "error"}

\* action(ctx, data) returns err and the deferred _release() starts; err is
\* discarded, the deferred call runs whatever it is
TaskReturn(c, err) ==
  /\ cpc[c] = "running"
  /\ err \in ActionResults
  /\ IF acquiredGroups[c] = <<>>
     THEN /\ FreeCall(c)
          /\ flog' = clog[c]
          /\ snap' = Fin(c, "done")
     ELSE /\ cpc' = [cpc EXCEPT ![c] = "releasing"]
          /\ ridx' = [ridx EXCEPT ![c] = 1]
          /\ UNCHANGED <<caction, cevent, cctx, clog, flog, cdata, todo, acquiredGroups, released, ran, snap>>
  /\ UNCHANGED <<gateVars, limitVars, regVars, sendVars, panicked, harness>>

\* NewEngine
InitEngine ==
  /\ harness = "engine"
  /\ InitIdle
  /\ groups = [a \in ActionKeys |-> {}]
  /\ limit = [g \in Gates |-> 0]
  /\ keyFunc = [g \in Gates |-> "nil"]

NextEngine ==
  \/ \E cg \in Configs : AddActionConfiguration(<<"e1">>, "a1", cg)
  \/ \E cg \in SmallConfigs : AddActionConfiguration(<<"e1", "e2">>, "a2", cg)
  \/ \E s \in Senders, e \in EventKeys, d \in Data : SendLookup(s, e, d)
  \/ \E s \in Senders : SpawnActionBegin(s)
  \/ \E c \in Calls : GroupsTryAcquireIter(c)
  \/ \E c \in Calls : GroupsRollback(c)
  \/ \E s \in Senders : SpawnActionFinish(s)
  \/ \E s \in Senders : SendReturn(s)
  \/ \E c \in Calls : TaskStart(c)
  \/ \E c \in Calls, err \in ActionResults : TaskReturn(c, err)
  \/ \E c \in Calls : ReleaseStep(c)

SpecEngine == InitEngine /\ [][NextEngine]_vars

\* ------------------------------------- Send with a cancellable context
\* (engine_test.go, TestEngine_ContextCancellation)
\* engine.Send(ctx, eventKey, data) with any context, cancelled or not
SendContext(s, x, e, d) ==
  /\ harness = "cancel"
  /\ SendFrom(s, x, e, d)

\* cancel(): the context is done from now on; the Engine never looks at it
CancelCtx(x) ==
  /\ harness = "cancel"
  /\ x # "background"
  /\ x \notin ctxDone
  /\ ctxDone' = ctxDone \cup {x}
  /\ UNCHANGED <<gateVars, limitVars, regVars, callVars, snap, spc, squeue, sdata, sevent,
                 sctx, slog, sbound, sspawned, sdropped, sret, scall, panicked, harness>>

\* the admission set of the test, alone and behind a global limit
CancelConfigs ==
  {Add(NewConcurrencyGroups, "user", 1, "user"),
   Add(AddGlobalLimit(NewConcurrencyGroups, 1), "user", 1, "user")}

InitCancel ==
  /\ harness = "cancel"
  /\ InitIdle
  /\ groups = [a \in ActionKeys |-> {}]
  /\ limit = [g \in Gates |-> 0]
  /\ keyFunc = [g \in Gates |-> "nil"]

NextCancel ==
  \/ \E cg \in CancelConfigs : AddActionConfiguration(<<"e1">>, "a1", cg)
  \/ \E s \in Senders, x \in Ctxs, d \in Data : SendContext(s, x, "e1", d)
  \/ \E x \in Ctxs : CancelCtx(x)
  \/ \E s \in Senders : SpawnActionBegin(s)
  \/ \E c \in Calls : GroupsTryAcquireIter(c)
  \/ \E c \in Calls : GroupsRollback(c)
  \/ \E s \in Senders : SpawnActionFinish(s)
  \/ \E s \in Senders : SendReturn(s)
  \/ \E c \in Calls : TaskStart(c)
  \/ \E c \in Calls, err \in ActionResults : TaskReturn(c, err)
  \/ \E c \in Calls : ReleaseStep(c)

SpecCancel == InitCancel /\ [][NextCancel]_vars

\* ------------------------------- a payload the action can write through
\* (data is an `any`: a pointer or a map is shared by Send's caller, the
\* closure of releaseFunc and the action)
\* engine.Send(ctx, eventKey, data) with a payload that is a pointer
SendPointer(s, e, d) ==
  /\ harness = "mutable"
  /\ SendFrom(s, "background", e, d)

\* action(ctx, data) writes through the payload while it runs: what the
\* closure of releaseFunc will hand to Release is now d
TaskMutate(c, d) ==
  /\ harness = "mutable"
  /\ cpc[c] = "running"
  /\ d # cdata[c]
  /\ cdata' = [cdata EXCEPT ![c] = d]
  /\ UNCHANGED <<gateVars, cpc, caction, cevent, cctx, clog, flog, todo, acquiredGroups,
                 ridx, released, ran, snap, limitVars, regVars, sendVars, panicked,
                 harness>>

\* a per-user limit, alone and behind a global limit
MutableConfigs ==
  {Add(NewConcurrencyGroups, "user", 1, "user"),
   Add(AddGlobalLimit(NewConcurrencyGroups, 1), "user", 1, "user")}

InitMutable ==
  /\ harness = "mutable"
  /\ InitIdle
  /\ groups = [a \in ActionKeys |-> {}]
  /\ limit = [g \in Gates |-> 0]
  /\ keyFunc = [g \in Gates |-> "nil"]

NextMutable ==
  \/ \E cg \in MutableConfigs : AddActionConfiguration(<<"e1">>, "a1", cg)
  \/ \E s \in Senders, d \in Data : SendPointer(s, "e1", d)
  \/ \E s \in Senders : SpawnActionBegin(s)
  \/ \E c \in Calls : GroupsTryAcquireIter(c)
  \/ \E c \in Calls : GroupsRollback(c)
  \/ \E s \in Senders : SpawnActionFinish(s)
  \/ \E s \in Senders : SendReturn(s)
  \/ \E c \in Calls : TaskStart(c)
  \/ \E c \in Calls, d \in Data : TaskMutate(c, d)
  \/ \E c \in Calls, err \in ActionResults : TaskReturn(c, err)
  \/ \E c \in Calls : ReleaseStep(c)

SpecMutable == InitMutable /\ [][NextMutable]_vars

\* ------------------ a configuration that names no ConcurrencyGroups
\* (ActionConfiguration is an exported struct; AddActionConfiguration stores
\* its fields as they are)
NilGroupsConfigs ==
  {NilConcurrencyGroups,
   NewConcurrencyGroups,
   AddGlobalLimit(NewConcurrencyGroups, 1),
   Add(AddGlobalLimit(NewConcurrencyGroups, 1), "user", 1, "user")}

InitNilGroups ==
  /\ harness = "nilgroups"
  /\ InitIdle
  /\ groups = [a \in ActionKeys |-> {}]
  /\ limit = [g \in Gates |-> 0]
  /\ keyFunc = [g \in Gates |-> "nil"]

NextNilGroups ==
  \/ \E cg \in NilGroupsConfigs :
       ~panicked /\ AddActionConfiguration(<<"e1">>, "a1", cg)
  \/ \E cg \in NilGroupsConfigs :
       ~panicked /\ AddActionConfiguration(<<"e1", "e2">>, "a2", cg)
  \/ \E s \in Senders, e \in EventKeys, d \in Data : ~panicked /\ SendLookup(s, e, d)
  \/ \E s \in Senders : ~panicked /\ SpawnActionBegin(s)
  \/ \E c \in Calls : ~panicked /\ GroupsTryAcquireIter(c)
  \/ \E c \in Calls : ~panicked /\ GroupsRollback(c)
  \/ \E s \in Senders : ~panicked /\ SpawnActionFinish(s)
  \/ \E s \in Senders : ~panicked /\ SendReturn(s)
  \/ \E c \in Calls : ~panicked /\ TaskStart(c)
  \/ \E c \in Calls, err \in ActionResults : ~panicked /\ TaskReturn(c, err)
  \/ \E c \in Calls : ~panicked /\ ReleaseStep(c)

SpecNilGroups == InitNilGroups /\ [][NextNilGroups]_vars

\* ------------------------ an event key listed twice in one registration
\* (ActionConfiguration.EventKeys is a slice; nothing removes duplicates)
RegistryConfigs ==
  {NewConcurrencyGroups}
  \cup {AddGlobalLimit(NewConcurrencyGroups, n) : n \in 1..MaxLimit}
  \cup {Add(AddGlobalLimit(NewConcurrencyGroups, 1), "user", 1, "user")}

InitRegistry ==
  /\ harness = "registry"
  /\ InitIdle
  /\ groups = [a \in ActionKeys |-> {}]
  /\ limit = [g \in Gates |-> 0]
  /\ keyFunc = [g \in Gates |-> "nil"]

NextRegistry ==
  \/ \E evs \in {<<"e1">>, <<"e1", "e1">>}, cg \in RegistryConfigs :
        AddActionConfiguration(evs, "a1", cg)
  \/ AddActionConfiguration(<<"e1">>, "a2", NewConcurrencyGroups)
  \/ \E s \in Senders, d \in Data : SendLookup(s, "e1", d)
  \/ \E s \in Senders : SpawnActionBegin(s)
  \/ \E c \in Calls : GroupsTryAcquireIter(c)
  \/ \E c \in Calls : GroupsRollback(c)
  \/ \E s \in Senders : SpawnActionFinish(s)
  \/ \E s \in Senders : SendReturn(s)
  \/ \E c \in Calls : TaskStart(c)
  \/ \E c \in Calls, err \in ActionResults : TaskReturn(c, err)
  \/ \E c \in Calls : ReleaseStep(c)

SpecRegistry == InitRegistry /\ [][NextRegistry]_vars

\* ------------------- AddActionConfiguration while Sends are in progress
\* (the three maps of the Engine are written without any lock)
\* line 96: e.actions[configuration.ActionKey] = configuration.Action
RegisterAction(evs, a, cg) ==
  /\ harness = "race"
  /\ reg.pc = "idle"
  /\ a \notin actions
  /\ actions' = actions \cup {a}
  /\ reg' = [pc |-> IF evs = <<>> THEN "limits" ELSE "triggers", a |-> a, evs |-> evs,
              cg |-> cg]
  /\ UNCHANGED <<gateVars, limitVars, groups, triggers, bret, bdo, errv, logger, callVars, snap,
                 sendVars, panicked, harness>>

\* lines 98-100: one pass of the loop over configuration.EventKeys
RegisterTrigger ==
  /\ harness = "race"
  /\ reg.pc = "triggers"
  /\ triggers' = AppendTrigger(triggers, Head(reg.evs), reg.a)
  /\ reg' = [reg EXCEPT !.evs = Tail(@),
                        !.pc = IF Tail(reg.evs) = <<>> THEN "limits" ELSE "triggers"]
  /\ UNCHANGED <<gateVars, limitVars, groups, actions, bret, bdo, errv, logger, callVars, snap,
                 sendVars, panicked, harness>>

\* line 102: e.actionConcurrencyLimits[configuration.ActionKey] = ...
RegisterLimits ==
  /\ harness = "race"
  /\ reg.pc = "limits"
  /\ groups' = [groups EXCEPT ![reg.a] = DOMAIN reg.cg]
  /\ limit' = [g \in Gates |->
                 IF g[1] = reg.a /\ g[2] \in DOMAIN reg.cg
                 THEN reg.cg[g[2]].limit ELSE limit[g]]
  /\ keyFunc' = [g \in Gates |->
                   IF g[1] = reg.a /\ g[2] \in DOMAIN reg.cg
                   THEN reg.cg[g[2]].keyFunc ELSE keyFunc[g]]
  /\ reg' = NoReg
  /\ UNCHANGED <<semaphores, limitVars, triggers, actions, bret, bdo, errv, logger, callVars, snap,
                 sendVars, panicked, harness>>

\* a Send reads a map of the Engine while the registration writes it: the
\* runtime may detect it (fatal error: concurrent map read and map write)
ConcurrentMapReadWrite(s) ==
  /\ harness = "race"
  /\ \/ reg.pc = "triggers" /\ spc[s] = "idle"
     \/ reg.pc = "limits" /\ spc[s] = "loop" /\ squeue[s] # <<>>
  /\ crashed' = TRUE
  /\ UNCHANGED <<gateVars, lpc, lkey, lok, lret, holds, stolen, gen, lchan, orphan,
                 otherThanLimit>>

\* the admission sets registered while Sends go on
RaceConfigs ==
  {AddGlobalLimit(NewConcurrencyGroups, 1),
   Add(AddGlobalLimit(NewConcurrencyGroups, 1), "user", 1, "user")}

InitRace ==
  /\ harness = "race"
  /\ InitIdle
  /\ groups = [a \in ActionKeys |-> {}]
  /\ limit = [g \in Gates |-> 0]
  /\ keyFunc = [g \in Gates |-> "nil"]

\* after a panic or a fatal error the program is gone
Gone == panicked \/ crashed

NextRace ==
  \/ \E evs \in {<<"e1">>, <<"e1", "e2">>}, cg \in RaceConfigs :
        ~Gone /\ RegisterAction(evs, "a1", cg)
  \/ ~Gone /\ RegisterAction(<<"e1">>, "a2", NewConcurrencyGroups)
  \/ ~Gone /\ RegisterTrigger
  \/ ~Gone /\ RegisterLimits
  \/ \E s \in Senders : ~Gone /\ ConcurrentMapReadWrite(s)
  \/ \E s \in Senders, e \in EventKeys, d \in Data : ~Gone /\ SendLookup(s, e, d)
  \/ \E s \in Senders : ~Gone /\ SpawnActionBegin(s)
  \/ \E c \in Calls : ~Gone /\ GroupsTryAcquireIter(c)
  \/ \E c \in Calls : ~Gone /\ GroupsRollback(c)
  \/ \E s \in Senders : ~Gone /\ SpawnActionFinish(s)
  \/ \E s \in Senders : ~Gone /\ SendReturn(s)
  \/ \E c \in Calls : ~Gone /\ TaskStart(c)
  \/ \E c \in Calls, err \in ActionResults : ~Gone /\ TaskReturn(c, err)
  \/ \E c \in Calls : ~Gone /\ ReleaseStep(c)

SpecRace == InitRace /\ [][NextRace]_vars

\* ------------------------------------- an Engine with or without a logger
\* the admission sets of the logged actions: none, a global limit, a global
\* limit and a group per user
LoggedConfigs ==
  {NewConcurrencyGroups, AddGlobalLimit(NewConcurrencyGroups, 1),
   Add(AddGlobalLimit(NewConcurrencyGroups, 1), "user", 1, "user")}

\* NewEngine(operationLogger), operationLogger nil or not
InitLogged ==
  /\ harness = "logged"
  /\ InitIdle
  /\ groups = [a \in ActionKeys |-> {}]
  /\ limit = [g \in Gates |-> 0]
  /\ keyFunc = [g \in Gates |-> "nil"]

NextLogged ==
  \/ \E cg \in LoggedConfigs : AddActionConfiguration(<<"e1">>, "a1", cg)
  \/ \E s \in Senders, e \in EventKeys, d \in Data : SendLookup(s, e, d)
  \/ \E s \in Senders : SpawnActionBegin(s)
  \/ \E c \in Calls : GroupsTryAcquireIter(c)
  \/ \E c \in Calls : GroupsRollback(c)
  \/ \E s \in Senders : SpawnActionFinish(s)
  \/ \E s \in Senders : SendReturn(s)
  \/ \E c \in Calls : TaskStart(c)
  \/ \E c \in Calls, err \in ActionResults : TaskReturn(c, err)
  \/ \E c \in Calls : ReleaseStep(c)

SpecLogged == InitLogged /\ [][NextLogged]_vars

\* ------------------------------- ActionBuilder and the Engine it fills
\* (builder.go; its Do writes one action key per event key, the registry of
\* the Engine of engine.go)
\* Engine.On: a builder with an empty set and no errors
NewBuilder == [groups |-> NewConcurrencyGroups, errors |-> <<>>]

\* ActionBuilder.Concurrency
Concurrency(ab, n) ==
  IF n = 0
  THEN [ab EXCEPT !.errors = Append(@, "Concurrency: limit must be non-negative")]
  ELSE [ab EXCEPT !.groups = AddGlobalLimit(@, n)]

\* ActionBuilder.ConcurrencyGroup: each failed check returns at once
ConcurrencyGroup(ab, name, n, kf) ==
  IF n = 0
  THEN [ab EXCEPT !.errors = Append(@, "ConcurrencyGroup: limit must be greater than 0")]
  ELSE IF kf = "nil"
  THEN [ab EXCEPT !.errors = Append(@, "ConcurrencyGroup: keyFunc must be provided")]
  ELSE IF name = ""
  THEN [ab EXCEPT !.errors = Append(@, "ConcurrencyGroup: groupName must be provided")]
  ELSE [ab EXCEPT !.groups = Add(@, name, n, kf)]

\* one call of a chain: <<method, groupName, limit, keyFunc>>
ApplyCall(ab, call) ==
  IF call[1] = "Concurrency"
  THEN Concurrency(ab, call[3])
  ELSE ConcurrencyGroup(ab, call[2], call[3], call[4])

\* the calls chained between On and Do, applied in order
RECURSIVE ApplyChain(_, _)
ApplyChain(ab, chain) ==
  IF chain = <<>> THEN ab
  ELSE ApplyChain(ApplyCall(ab, Head(chain)), Tail(chain))

\* ActionBuilder.Do, lines 77-87: the three checks of Do, none returning
DoErrors(errs, key, evs, action) ==
  LET e1 == IF key = "" THEN Append(errs, "Do: actionKey must be provided") ELSE errs
      e2 == IF Len(evs) = 0 THEN Append(e1, "Do: eventKeys must be provided") ELSE e1
  IN IF action = "nil" THEN Append(e2, "Do: action must be provided") ELSE e2

CommitsAlways(errs) == TRUE

\* ActionBuilder.Do, lines 89-91: any recorded error returns before the maps
\* of the engine are written
Commits(errs) == Len(errs) = 0

\* the event keys of a list
EventsOf(evs) == {evs[i] : i \in 1..Len(evs)}

SetTriggersKeepFirst(tr, evs, a) ==
  [x \in DOMAIN tr \cup EventsOf(evs) |-> IF x \in DOMAIN tr THEN tr[x] ELSE a]

\* ActionBuilder.Do, lines 95-97: ab.engine.triggers[eventKey] = actionKey
SetTriggers(tr, evs, a) ==
  [x \in DOMAIN tr \cup EventsOf(evs) |-> IF x \in EventsOf(evs) THEN a ELSE tr[x]]

\* the chains explored, as the tests write them
CallConcurrency(n) == <<"Concurrency", "", n, "nil">>
CallConcurrencyGroup(name, n, kf) == <<"ConcurrencyGroup", name, n, kf>>

ValidChains ==
  { <<>>,
    <<CallConcurrency(1)>>,
    <<CallConcurrency(1), CallConcurrencyGroup("user", 1, "user")>> }

Chains ==
  ValidChains
  \cup { <<CallConcurrency(0)>>,
         <<CallConcurrencyGroup("user", 1, "nil")>>,
         <<CallConcurrencyGroup("", 0, "nil")>>,
         <<CallConcurrencyGroup("", 1, "user")>>,
         <<CallConcurrency(0), CallConcurrencyGroup("", 1, "user"),
           CallConcurrencyGroup("user", 1, "nil")>> }

\* engine.On(evs...). chain .Do(key, action), run before the first Send
Do(evs, chain, key, action) ==
  /\ harness = "builder"
  /\ \A s \in Senders : spc[s] = "idle" /\ sret[s] = "none"
  /\ LET ab == ApplyChain(NewBuilder, chain)
         errs == DoErrors(ab.errors, key, evs, action)
         cg == ab.groups IN
       /\ bdo' = [done |-> TRUE, evs |-> evs, chain |-> chain, key |-> key,
                  action |-> action, errors |-> errs]
       /\ IF Commits(errs)
          THEN /\ bret' = "nil"
               /\ actions' = actions \cup {key}
               /\ triggers' = SetTriggers(triggers, evs, key)
               /\ groups' = [a \in ActionKeys |-> IF a = key THEN DOMAIN cg ELSE groups[a]]
               /\ limit' = [g \in Gates |->
                              IF g[1] = key
                              THEN (IF g[2] \in DOMAIN cg THEN cg[g[2]].limit ELSE 0)
                              ELSE limit[g]]
               /\ keyFunc' = [g \in Gates |->
                                IF g[1] = key
                                THEN (IF g[2] \in DOMAIN cg THEN cg[g[2]].keyFunc ELSE "nil")
                                ELSE keyFunc[g]]
          ELSE /\ bret' = "error"
               /\ UNCHANGED <<actions, triggers, groups, limit, keyFunc>>
  /\ UNCHANGED <<semaphores, errv, reg, logger, limitVars, callVars, snap, sendVars, panicked, harness>>

\* Engine.Send of engine.go: one action key per event key
SendOne(s, e, d) ==
  /\ harness = "builder"
  /\ spc[s] = "idle"
  /\ sevent' = [sevent EXCEPT ![s] = e]
  /\ sctx' = [sctx EXCEPT ![s] = "background"]
  /\ UNCHANGED <<ctxDone, slog>>
  /\ sspawned' = [sspawned EXCEPT ![s] = 0]
  /\ sdropped' = [sdropped EXCEPT ![s] = 0]
  /\ bdo' = NoDo
  /\ IF e \in DOMAIN triggers
     THEN /\ Cardinality(FreeSlots) >= 1
          /\ spc' = [spc EXCEPT ![s] = "loop"]
          /\ squeue' = [squeue EXCEPT ![s] = <<triggers[e]>>]
          /\ sdata' = [sdata EXCEPT ![s] = d]
          /\ sbound' = [sbound EXCEPT ![s] = 1]
          /\ sret' = [sret EXCEPT ![s] = "none"]
     ELSE /\ sret' = [sret EXCEPT ![s] = "false"]
          /\ sbound' = [sbound EXCEPT ![s] = 0]
          /\ UNCHANGED <<spc, squeue, sdata>>
  /\ UNCHANGED <<scall, gateVars, limitVars, groups, triggers, actions, bret, errv, reg, logger, callVars,
                 snap, panicked, harness>>

\* NewEngine of engine.go
InitBuilder ==
  /\ harness = "builder"
  /\ InitIdle
  /\ groups = [a \in ActionKeys |-> {}]
  /\ limit = [g \in Gates |-> 0]
  /\ keyFunc = [g \in Gates |-> "nil"]

NextBuilder ==
  \/ \E evs \in {<<>>, <<"e1">>, <<"e1", "e2">>}, chain \in Chains,
        key \in {"", "a1"}, action \in {"nil", "fn"} : Do(evs, chain, key, action)
  \/ Do(<<"e1">>, <<>>, "a2", "fn")
  \/ \E s \in Senders, e \in EventKeys, d \in Data : SendOne(s, e, d)
  \/ \E s \in Senders : SpawnActionBegin(s)
  \/ \E c \in Calls : GroupsTryAcquireIter(c)
  \/ \E c \in Calls : GroupsRollback(c)
  \/ \E s \in Senders : SpawnActionFinish(s)
  \/ \E s \in Senders : SendReturn(s)
  \/ \E c \in Calls : TaskStart(c)
  \/ \E c \in Calls, err \in ActionResults : TaskReturn(c, err)
  \/ \E c \in Calls : ReleaseStep(c)

SpecBuilder == InitBuilder /\ [][NextBuilder]_vars

\* ------------------------------------------------- ErrBuilderBadParams
\* A string is modelled by the sequence of the pieces written to it.
\* the messages of the listed errors, as the tests make them
Msgs == {"first error", "second error", "third error"}

\* the error lists explored
RECURSIVE SeqsUpTo(_)
SeqsUpTo(n) ==
  IF n = 0 THEN {<<>>}
  ELSE SeqsUpTo(n - 1)
         \cup {Append(q, m) : q \in {x \in SeqsUpTo(n - 1) : Len(x) = n - 1}, m \in Msgs}

ErrLists == SeqsUpTo(MaxErrs)

SepBeforeAlways(i) == i >= 0

\* Error, lines 22-24: if i > 0 { errBuilder.WriteString(", ") }
SepBefore(i) == i > 0

\* Error, lines 21-26: the range loop from index i (0-based) on, appending
\* to what the strings.Builder b holds
RECURSIVE WriteErrors(_, _, _)
WriteErrors(b, errs, i) ==
  IF i >= Len(errs) THEN b
  ELSE WriteErrors((IF SepBefore(i) THEN Append(b, ", ") ELSE b) \o <<errs[i + 1]>>,
                   errs, i + 1)

\* ErrBuilderBadParams.Error
Error(errs) ==
  IF Len(errs) = 0 THEN <<"builder errors">>
  ELSE WriteErrors(<<"builder errors: ">>, errs, 0)

\* ErrBuilderBadParams.Unwrap
Unwrap(errs) == errs

\* &ErrBuilderBadParams{Errors: errs}
MakeErr(errs) ==
  /\ harness = "errors"
  /\ ~errv.made
  /\ errv' = [NoErr EXCEPT !.made = TRUE, !.errors = errs]
  /\ UNCHANGED <<gateVars, limitVars, groups, triggers, actions, bret, bdo, reg, logger, callVars, snap,
                 sendVars, panicked, harness>>

\* err.Error()
CallError ==
  /\ harness = "errors"
  /\ errv.made
  /\ errv' = [errv EXCEPT !.hasStr = TRUE, !.str = Error(errv.errors)]
  /\ UNCHANGED <<gateVars, limitVars, groups, triggers, actions, bret, bdo, reg, logger, callVars, snap,
                 sendVars, panicked, harness>>

\* err.Unwrap()
CallUnwrap ==
  /\ harness = "errors"
  /\ errv.made
  /\ errv' = [errv EXCEPT !.hasUnw = TRUE, !.unw = Unwrap(errv.errors)]
  /\ UNCHANGED <<gateVars, limitVars, groups, triggers, actions, bret, bdo, reg, logger, callVars, snap,
                 sendVars, panicked, harness>>

InitErrors ==
  /\ harness = "errors"
  /\ InitIdle
  /\ groups = [a \in ActionKeys |-> {}]
  /\ limit = [g \in Gates |-> 0]
  /\ keyFunc = [g \in Gates |-> "nil"]

NextErrors ==
  \/ \E errs \in ErrLists : MakeErr(errs)
  \/ CallError
  \/ CallUnwrap

SpecErrors == InitErrors /\ [][NextErrors]_vars

\* --------------------------- every way of driving the exported package
Init == InitLimit \/ InitGroups \/ InitEngine

Next == NextLimit \/ NextGroups \/ NextEngine

Spec == Init /\ [][Next]_vars

\* ================================================================ claims
\* goroutines that own an acquisition of key k of the standalone limit
Holders(k) == {p \in Procs : holds[p] = k}

\* C1: as long as no acquisition was released more than once (no Release by a
\* goroutine that owns nothing ever took a slot), at most limit acquisitions
\* of any key have returned true and are not yet released.
C1_AtMostLimitHeld ==
  ~stolen => \A k \in Keys : Cardinality(Holders(k)) <= limit[Standalone]

\* a key is saturated by limit >= 1 owners and one more TryAcquire was refused
C1_Witness ==
  /\ ~stolen
  /\ limit[Standalone] >= 1
  /\ \E k \in Keys : Cardinality(Holders(k)) = limit[Standalone]
  /\ \E p \in Procs : lret[p] = "false" /\ holds[p] = "-"

\* C2: when a TryAcquire of the whole set is denied and no other call touched
\* a gate meanwhile, every member's held count of every key is what it was
\* when the call began, whichever member denied and in whatever order.
C2_DeniedIsAllOrNothing ==
  /\ \A c \in Calls :
       (cpc[c] = "denied" /\ snap.owner = c) => HeldIn(caction[c]) = snap.held
  /\ snap.fin = "dropped" => HeldIn(snap.action) = snap.held

\* a denied call that had already acquired a member and rolled it back
C2_Witness ==
  \E c \in Calls :
    /\ cpc[c] = "denied"
    /\ snap.owner = c
    /\ snap.nacq >= 1

\* the key member n of the set of call c derives from the call's payload
KeyOf(c, n) == getKey(<<caction[c], n>>, cdata[c])

\* C3: a grant means every member admitted: with no other call interfering,
\* each member's count of its derived key was below its limit and is now one
\* higher, nothing else changed, and after the release has run once the
\* counts are back; a denied request never runs and leaves the counts alone.
C3_GrantedByAllMembers ==
  \A c \in Calls :
    LET a == caction[c] IN
      /\ (cpc[c] \in {"granted", "spawned", "running"} /\ snap.owner = c)
           => \A n \in Names, k \in Keys :
                IF n \in groups[a] /\ k = KeyOf(c, n)
                THEN /\ snap.held[n][k] < limit[<<a, n>>]
                     /\ Held(<<a, n>>, k) = snap.held[n][k] + 1
                ELSE Held(<<a, n>>, k) = snap.held[n][k]
      /\ cpc[c] \in {"iter", "rollback", "denied"} => ~ran[c]
      /\ snap.fin = "done" => HeldIn(snap.action) = snap.held
      /\ snap.fin = "dropped" => (~snap.ran /\ HeldIn(snap.action) = snap.held)

\* a request admitted by two groups has run and released both
C3_Witness ==
  /\ snap.fin = "done"
  /\ snap.ran
  /\ snap.nacq = 2

\* calls that were granted and whose release has not been invoked, per key
Outstanding(a, n, k) ==
  {c \in Calls : /\ cpc[c] \in {"granted", "spawned", "running"}
                 /\ ~released[c]
                 /\ caction[c] = a
                 /\ n \in groups[a]
                 /\ KeyOf(c, n) = k}

\* C4: even when a release closure is invoked more than once, the admissions
\* granted and not yet released on any key of any member never exceed the
\* member's limit.
C4_DoubleReleaseIsSafe ==
  \A a \in ActionKeys, n \in Names, k \in Keys :
    n \in groups[a] => Cardinality(Outstanding(a, n, k)) <= limit[<<a, n>>]

\* a goroutine inside Release that is able to return
CanReturn(p) ==
  \/ lpc[p] = "rel_select"
  \/ lpc[p] = "rel_recv" /\ lok[p] /\ LocalLen(p) > 0

\* C5: Release never blocks, and when it returns it has freed exactly one slot
\* of its key if the key was known when it looked and a slot is held, and has
\* changed nothing otherwise.
C5_ReleaseNeverBlocks ==
  [][\A p \in Procs :
       /\ (lpc'[p] \in {"rel_select", "rel_recv"} => CanReturn(p)')
       /\ (lpc[p] \in {"rel_select", "rel_recv"} /\ lpc'[p] = "idle")
            => \A k \in Keys :
                 Held(Standalone, k)' =
                   IF k = lkey[p] /\ lok[p] /\ Held(Standalone, k) > 0
                   THEN Held(Standalone, k) - 1
                   ELSE Held(Standalone, k)]_vars

\* positions of a call that has been granted
GrantedStates == {"granted", "spawned", "running", "releasing"}

\* C6: a gate of limit 0 never holds a slot and never returns true, and a set
\* with a member of limit 0 is never granted.
C6_ZeroLimitNeverAdmits ==
  /\ \A g \in Gates, k \in Keys : limit[g] = 0 => Held(g, k) = 0
  /\ limit[Standalone] = 0 => \A p \in Procs : lret[p] # "true" /\ holds[p] = "-"
  /\ \A c \in Calls, n \in Names :
       (n \in groups[caction[c]] /\ limit[<<caction[c], n>>] = 0)
         => (cpc[c] \notin GrantedStates /\ ~ran[c])

\* a limit of 0 refused a TryAcquire after Releases were tried on it
C6_Witness ==
  /\ limit[Standalone] = 0
  /\ \E p, q \in Procs : lret[p] = "false" /\ lret[q] = "returned"

\* C7: a step of a TryAcquire or Release on one key changes the held count of
\* no other key, and TryAcquire returns true exactly when fewer than limit
\* slots of its own key are held.
C7_KeysAreIndependent ==
  [][\A p \in Procs :
       /\ lpc[p] # lpc'[p]
            => \A k2 \in Keys \ {lkey[p], lkey'[p]} :
                 Held(Standalone, k2)' = Held(Standalone, k2)
       /\ (lpc[p] = "acq_select" /\ lpc'[p] = "idle")
            => (lret'[p] = "true" <=> Held(Standalone, lkey[p]) < limit[Standalone])]_vars

\* u1 is saturated and u2 was admitted all the same
C7_Witness ==
  /\ limit[Standalone] >= 1
  /\ ~stolen
  /\ Cardinality(Holders("u1")) = limit[Standalone]
  /\ Held(Standalone, "u1") = limit[Standalone]
  /\ \E p \in Procs : holds[p] = "u2" /\ lret[p] = "true"

\* C8: a call on a set without groups, and a dispatch of an action registered
\* without groups, is never denied.
C8_NoGroupsAlwaysGrants ==
  /\ \A c \in Calls :
       (cpc[c] # "free" /\ groups[caction[c]] = {}) => cpc[c] \in GrantedStates
  /\ snap.fin = "dropped" => groups[snap.action] # {}

\* two instances of an action without groups run at once
C8_Witness ==
  \E c1, c2 \in Calls :
    /\ c1 # c2
    /\ harness = "engine"
    /\ caction[c1] = caction[c2]
    /\ groups[caction[c1]] = {}
    /\ cpc[c1] = "running" /\ cpc[c2] = "running"

\* C9: invoking the release handed back with a denial raises no error.
C9_DeniedReleaseIsNoOp == \A c \in Calls : cpc[c] # "panic"

\* C10: Send returns true exactly when an action was bound to the event key,
\* also when nothing was spawned; a Send of an unbound key returns false
\* without touching a gate or a call.
C10_SendReportsBinding ==
  [][\A s \in Senders :
       /\ sret'[s] = "true" => sbound'[s] >= 1
       /\ sret'[s] = "false" => (sbound'[s] = 0 /\ sspawned'[s] = 0)
       /\ (spc[s] = "loop" /\ spc'[s] = "idle") => sret'[s] = "true"
       /\ (spc[s] = "idle" /\ spc'[s] = "idle" /\ sret'[s] = "false"
             /\ <<sret[s], sevent[s]>> # <<sret'[s], sevent'[s]>>)
            => UNCHANGED <<semaphores, callVars>>]_vars

\* Send returned true although every bound action was denied
C10_Witness ==
  \E s \in Senders : sret[s] = "true" /\ sbound[s] >= 1 /\ sspawned[s] = 0

\* call c owns a slot of member n of its admission set: it acquired n and the
\* release loop in progress, if any, has not reached n yet
Holding(c, n) ==
  \E i \in 1..Len(acquiredGroups[c]) :
    /\ acquiredGroups[c][i] = n
    /\ cpc[c] \in {"rollback", "releasing"} => i >= ridx[c]

\* calls that own a slot of the global group of action a
GlobalHolders(a) == {c \in Calls : caction[c] = a /\ Holding(c, "")}

\* instances of action a whose goroutine was started and has not returned
Instances(a) == {c \in Calls : caction[c] = a /\ cpc[c] \in {"spawned", "running"}}

\* C11: an action registered with a global limit N never has more than N
\* instances running; the global gate counts exactly the dispatches that own
\* a slot, and a dispatch of an action limited only globally is admitted
\* exactly when fewer than N others own one, so M sends with none completing
\* start min(M, N) instances and drop the rest.
C11_GlobalLimitBoundsInstances ==
  /\ [](\A a \in actions :
          "" \in groups[a]
            => /\ Cardinality(Instances(a)) <= limit[<<a, "">>]
               /\ Held(<<a, "">>, "") = Cardinality(GlobalHolders(a)))
  /\ [][\A c \in Calls :
          (cpc[c] = "iter" /\ cpc'[c] \in {"granted", "denied"}
             /\ groups[caction[c]] = {""})
            => (cpc'[c] = "granted"
                  <=> Cardinality(GlobalHolders(caction[c]) \ {c})
                        < limit[<<caction[c], "">>])]_vars

\* the global limit is saturated by running instances and one more dispatch
\* of the action was dropped
C11_Witness ==
  \E a \in actions :
    /\ groups[a] = {""}
    /\ limit[<<a, "">>] >= 1
    /\ Cardinality({c \in Instances(a) : cpc[c] = "running"}) = limit[<<a, "">>]
    /\ snap.fin = "dropped"
    /\ snap.action = a

\* calls that own a slot of key k of member n of the admission set of a
SlotOwners(a, n, k) ==
  {c \in Calls : caction[c] = a /\ KeyOf(c, n) = k /\ Holding(c, n)}

\* every call that owns a slot of member n of the set of a owns it in a channel
\* that exists: a key without a channel has no owners and holds nothing
OwnersHaveChannel(a, n) ==
  \A c \in Calls :
    (caction[c] = a /\ Holding(c, n))
      => semaphores[<<a, n>>][KeyOf(c, n)] # Absent

\* C12: no slot leaks: an admitted dispatch keeps every slot it acquired
\* until its action has returned, its release starts only after the action
\* ran, every gate counts exactly the dispatches that own a slot of it, and
\* so once every dispatch is over every count is zero and below its limit
\* again.
C12_NoSlotLeak ==
  /\ \A c \in Calls :
       /\ cpc[c] \in {"spawned", "running"}
            => (ridx[c] = 0 /\ \A n \in groups[caction[c]] : Holding(c, n))
       /\ cpc[c] = "releasing" => ran[c]
  /\ \A a \in ActionKeys, n \in Names :
       /\ OwnersHaveChannel(a, n)
       /\ \A k \in Keys :
            semaphores[<<a, n>>][k] # Absent
              => Held(<<a, n>>, k) = Cardinality(SlotOwners(a, n, k))
  /\ (\A c \in Calls : cpc[c] = "free")
       => \A g \in Gates, k \in Keys :
            Held(g, k) = 0 /\ (limit[g] > 0 => TryAcquireOk(g, k))

\* every dispatch is over, the last one ran with slots of its own, and a
\* channel it used is empty again
C12_Witness ==
  /\ \A c \in Calls : cpc[c] = "free"
  /\ snap.fin = "done" /\ snap.ran /\ snap.nacq >= 1
  /\ \E n \in groups[snap.action], k \in Keys :
       semaphores[<<snap.action, n>>][k] = 0

\* C13: a denial is a silent drop: a denied dispatch is only ever discarded,
\* never started; a goroutine is started only by a Send in progress, never
\* by a slot becoming free, and a Send starts at most one instance per action
\* bound to its event.
C13_DeniedIsDropped ==
  [][/\ \A c \in Calls :
          /\ cpc[c] = "denied" => (cpc'[c] \in {"denied", "free"} /\ ~ran'[c])
          /\ (cpc'[c] = "spawned" /\ cpc[c] # "spawned")
               => /\ cpc[c] \in {"granted", "free"}
                  /\ \E s \in Senders :
                       spc[s] \in {"loop", "acquiring"} /\ sspawned'[s] = sspawned[s] + 1
          /\ (ran'[c] /\ ~ran[c]) => cpc[c] = "spawned"
     /\ \A s \in Senders : sspawned'[s] <= sbound'[s]]_vars

\* a dispatch was dropped and its Send returned; nothing is running, no
\* slot is held, and the dropped dispatch has not run
C13_Witness ==
  /\ snap.fin = "dropped"
  /\ ~snap.ran
  /\ \A c \in Calls : cpc[c] = "free"
  /\ \A s \in Senders : spc[s] = "idle" /\ sret[s] = "true"
  /\ \A k \in Keys, n \in Names : Held(<<snap.action, n>>, k) = 0

BoundTo(e) ==
  IF e \in DOMAIN triggers
  THEN {triggers[e][i] : i \in 1..Len(triggers[e])}
  ELSE {}

\* C16: an action registered under several event keys is bound to each of
\* them, a dispatch through any of them is a dispatch of that one action and
\* works on the one admission set of the action, so the instances started
\* through all its events together stay within the global limit of the set
\* and every gate counts the slot owners whatever event they came through.
C16_EventsShareOneAdmissionSet ==
  /\ "a2" \in actions => ("a2" \in BoundTo("e1") /\ "a2" \in BoundTo("e2"))
  /\ \A c \in Calls : cpc[c] # "free" => caction[c] \in BoundTo(cevent[c])
  /\ \A a \in actions :
       "" \in groups[a]
         => Cardinality({c \in Instances(a) : cevent[c] = "e1"})
              + Cardinality({c \in Instances(a) : cevent[c] = "e2"})
              <= limit[<<a, "">>]
  /\ \A a \in actions, n \in Names :
       /\ OwnersHaveChannel(a, n)
       /\ \A k \in Keys :
            semaphores[<<a, n>>][k] # Absent
              => LET owners == SlotOwners(a, n, k) IN
                   Held(<<a, n>>, k)
                     = Cardinality({c \in owners : cevent[c] = "e1"})
                         + Cardinality({c \in owners : cevent[c] = "e2"})

\* an instance started through e1 saturates the action's global limit and a
\* Send of e2 had its dispatch of the same action dropped
C16_Witness ==
  \E s \in Senders, c \in Calls :
    /\ cpc[c] = "running" /\ cevent[c] = "e1"
    /\ groups[caction[c]] = {""}
    /\ limit[<<caction[c], "">>] = 1
    /\ spc[s] = "idle" /\ sevent[s] = "e2"
    /\ sbound[s] = 1 /\ sdropped[s] = 1
    /\ snap.fin = "dropped" /\ snap.action = caction[c]

\* C15: when two different action keys are registered through the builder on
\* the same event key, the event is bound to the later one alone: right
\* after a successful Do every event key of the chain is bound to its action
\* key, a Send dispatches at most one action, the one bound to its event, and
\* an action whose events were all taken over is never dispatched.
C15_LastRegistrationWins ==
  /\ (bdo.done /\ bret = "nil")
       => \A e \in EventsOf(bdo.evs) : e \in DOMAIN triggers /\ triggers[e] = bdo.key
  /\ \A s \in Senders : sbound[s] <= 1 /\ sspawned[s] + sdropped[s] <= 1
  /\ \A c \in Calls :
       cpc[c] # "free"
         => (cevent[c] \in DOMAIN triggers /\ caction[c] = triggers[cevent[c]])

\* a1 was registered on e1, then a2 on e1: a Send of e1 started a2 only
C15_Witness ==
  \E s \in Senders, c \in Calls :
    /\ actions = {"a1", "a2"}
    /\ triggers["e1"] = "a2"
    /\ sevent[s] = "e1" /\ sret[s] = "true" /\ sspawned[s] = 1
    /\ caction[c] = "a2" /\ cpc[c] = "running"
    /\ \A c2 \in Calls \ {c} : cpc[c2] = "free"

\* C18: a registration with any violation has no side effect: Do returns an
\* error exactly when the chain recorded one, such a Do leaves the triggers,
\* the actions and the admission sets of the engine as they were, a Send
\* returns true only for an event that a successful Do bound, and only
\* registered actions are ever dispatched.
C18_FailedDoChangesNothing ==
  /\ [](/\ bdo.done => (bret = "error" <=> Len(bdo.errors) > 0)
        /\ \A s \in Senders : sret[s] = "true" => sevent[s] \in DOMAIN triggers
        /\ \A c \in Calls : cpc[c] # "free" => caction[c] \in actions)
  /\ [][(bdo'.done /\ Len(bdo'.errors) > 0 /\ <<bdo', bret'>> # <<bdo, bret>>)
          => UNCHANGED <<triggers, actions, groups, limit, keyFunc, semaphores>>]_vars

\* the only registration failed and the Send that followed returned false
\* without starting anything
C18_Witness ==
  /\ bret = "error"
  /\ actions = {} /\ DOMAIN triggers = {}
  /\ \E s \in Senders : sret[s] = "false" /\ sevent[s] = "e1" /\ spc[s] = "idle"
  /\ \A c \in Calls : cpc[c] = "free"

\* the rules one builder call violates
CallViolations(call) ==
  IF call[1] = "Concurrency"
  THEN (IF call[3] = 0 THEN 1 ELSE 0)
  ELSE (IF call[3] = 0 THEN 1 ELSE 0)
         + (IF call[4] = "nil" THEN 1 ELSE 0)
         + (IF call[2] = "" THEN 1 ELSE 0)

\* the rules the calls of a chain violate, all together
RECURSIVE ChainViolations(_)
ChainViolations(chain) ==
  IF chain = <<>> THEN 0
  ELSE CallViolations(Head(chain)) + ChainViolations(Tail(chain))

\* the rules the arguments of Do violate
DoViolations(key, evs, action) ==
  (IF key = "" THEN 1 ELSE 0) + (IF evs = <<>> THEN 1 ELSE 0)
    + (IF action = "nil" THEN 1 ELSE 0)

\* C19: the error Do returns holds one entry for every rule violated by any
\* call of the chain and by the arguments of Do, not only the first
\* violation found.
C19_EveryViolationReported ==
  bdo.done
    => Len(bdo.errors)
         = ChainViolations(bdo.chain) + DoViolations(bdo.key, bdo.evs, bdo.action)

\* C20: a chain ConcurrencyGroup(name, 1, nil) followed by a valid Do
\* registers the action, limited by a group of that name with limit 1 and no
\* key function, so that every payload shares the implicit key.
C20_NilKeyFuncGroupRegisters ==
  (/\ bdo.done
   /\ bdo.chain = <<CallConcurrencyGroup("user", 1, "nil")>>
   /\ bdo.key # "" /\ bdo.evs # <<>> /\ bdo.action # "nil")
    => /\ bret = "nil"
       /\ bdo.key \in actions
       /\ groups[bdo.key] = {"user"}
       /\ limit[<<bdo.key, "user">>] = 1
       /\ keyFunc[<<bdo.key, "user">>] = "nil"

\* C17: goroutines racing on the first use of a key never break the program
\* and make exactly one channel for the key; while no Release by a goroutine
\* owning nothing took a slot, the channel of the key holds exactly one
\* element per acquisition that returned true and is not released, never
\* more than limit, and a TryAcquire about to select finds room exactly when
\* fewer than limit acquisitions are outstanding.
C17_FirstUseIsRaceFree ==
  /\ ~crashed
  /\ \A k \in Keys : gen[k] <= 1 /\ (gen[k] = 1 <=> semaphores[Standalone][k] # Absent)
  /\ ~stolen
       => /\ \A k \in Keys :
               /\ Held(Standalone, k) = Cardinality(Holders(k))
               /\ Cardinality(Holders(k)) <= limit[Standalone]
          /\ \A p \in Procs :
               lpc[p] = "acq_select"
                 => (SendOk(LocalLen(p), limit[Standalone])
                       <=> Cardinality(Holders(lkey[p])) < limit[Standalone])

\* C21: a chain ConcurrencyGroup("", 1, keyFunc) followed by a valid Do
\* registers the action, limited by a keyed group of limit 1 under the empty
\* name.
C21_EmptyGroupNameRegisters ==
  (/\ bdo.done
   /\ bdo.chain = <<CallConcurrencyGroup("", 1, "user")>>
   /\ bdo.key # "" /\ bdo.evs # <<>> /\ bdo.action # "nil")
    => /\ bret = "nil"
       /\ bdo.key \in actions
       /\ groups[bdo.key] = {""}
       /\ limit[<<bdo.key, "">>] = 1
       /\ keyFunc[<<bdo.key, "">>] = "user"

\* what Error is to return for a list: "builder errors" alone for the empty
\* list, else the prefix, then message i at piece 2i and ", " between
ExpectedError(errs) ==
  IF Len(errs) = 0 THEN <<"builder errors">>
  ELSE [i \in 1..(2 * Len(errs)) |->
          IF i = 1 THEN "builder errors: "
          ELSE IF i % 2 = 0 THEN errs[i \div 2]
          ELSE ", "]

\* C22: Error returns "builder errors" for an empty list and otherwise
\* "builder errors: " followed by the messages in list order joined by ", ";
\* Unwrap returns the list itself, in the same order.
C22_ErrorJoinsMessages ==
  /\ errv.hasStr => errv.str = ExpectedError(errv.errors)
  /\ errv.hasUnw => errv.unw = errv.errors

\* Error and Unwrap were called on a list of three different messages
C22_Witness ==
  /\ errv.hasStr /\ errv.hasUnw
  /\ Len(errv.errors) = 3
  /\ errv.errors[1] # errv.errors[2] /\ errv.errors[2] # errv.errors[3]
  /\ Len(errv.str) = 6

\* the stage of the dispatch in call slot c: Resolved while TryAcquire is at
\* work, Admitted once it granted (or the action has no groups) until the
\* goroutine calls the action, Completed once the action returned
Stage(c) ==
  CASE cpc[c] \in {"iter", "rollback"} -> "Resolved"
    [] cpc[c] \in {"granted", "spawned"} -> "Admitted"
    [] cpc[c] = "running" -> "Running"
    [] cpc[c] = "releasing" -> "Completed"
    [] cpc[c] = "denied" -> "Denied"
    [] OTHER -> "None"

\* the stage of slot c after the step
StageNext(c) ==
  CASE cpc'[c] \in {"iter", "rollback"} -> "Resolved"
    [] cpc'[c] \in {"granted", "spawned"} -> "Admitted"
    [] cpc'[c] = "running" -> "Running"
    [] cpc'[c] = "releasing" -> "Completed"
    [] cpc'[c] = "denied" -> "Denied"
    [] OTHER -> "None"

\* the moves of the state machine of one dispatch; a dispatch begins Resolved
\* (Admitted at once when its action has no groups) and is gone ("None")
\* after Completed or Denied
LifecycleMoves ==
  {<<"None", "Resolved">>, <<"None", "Admitted">>,
   <<"Resolved", "Admitted">>, <<"Resolved", "Denied">>,
   <<"Admitted", "Running">>, <<"Running", "Completed">>,
   <<"Running", "None">>, <<"Completed", "None">>, <<"Denied", "None">>}

\* C23: a dispatch only moves Resolved -> Admitted -> Running -> Completed or
\* Resolved -> Denied; an instance is Running only after it was Admitted and
\* only while it owns one slot in every member of its action's admission
\* set; a Denied dispatch owns no slot, only ever disappears, and its
\* disappearing changes no gate.
C23_DispatchLifecycle ==
  /\ [](\A c \in Calls :
          /\ Stage(c) = "Running"
               => /\ ran[c]
                  /\ \A n \in groups[caction[c]] :
                       /\ Cardinality({i \in 1..Len(acquiredGroups[c]) :
                                         acquiredGroups[c][i] = n}) = 1
                       /\ Holding(c, n)
                       /\ Held(<<caction[c], n>>, KeyOf(c, n)) >= 1
          /\ Stage(c) = "Denied"
               => /\ ~ran[c]
                  /\ \A n \in Names : ~Holding(c, n))
  /\ [][\A c \in Calls :
          /\ Stage(c) # StageNext(c) => <<Stage(c), StageNext(c)>> \in LifecycleMoves
          /\ (Stage(c) = "None" /\ StageNext(c) = "Admitted") => groups[caction'[c]] = {}
          /\ (Stage(c) = "Running" /\ StageNext(c) = "None") => groups[caction[c]] = {}
          /\ (Stage(c) = "Denied" /\ StageNext(c) = "None")
               => (semaphores' = semaphores /\ \A c2 \in Calls \ {c} : cpc'[c2] = cpc[c2])]_vars

\* an instance runs with a slot in each of the two members of its admission
\* set while another dispatch was denied
C23_Witness ==
  \E c, c2 \in Calls :
    /\ Stage(c) = "Running" /\ Cardinality(groups[caction[c]]) = 2
    /\ Stage(c2) = "Denied"

\* instances whose context was cancelled and whose action has not returned
CancelledInstances == {c \in Calls : cpc[c] \in {"spawned", "running"} /\ cctx[c] \in ctxDone}

\* cancelled instances that own a slot of key k of member n of the set of a
CancelledOwners(a, n, k) == SlotOwners(a, n, k) \cap CancelledInstances

\* C24: cancelling the context given to Send frees nothing: the cancel step
\* changes no gate and no dispatch, a cancelled instance keeps a slot of every
\* member gate until its action returns, and a dispatch is never granted
\* while cancelled instances that have not returned fill one of its gates.
C24_CancelFreesNothing ==
  /\ [](\A c \in CancelledInstances :
          \A n \in groups[caction[c]] :
            Holding(c, n) /\ Held(<<caction[c], n>>, KeyOf(c, n)) >= 1)
  /\ [][/\ ctxDone' # ctxDone => (semaphores' = semaphores /\ callVars' = callVars)
        /\ \A c \in Calls :
             (cpc[c] = "iter" /\ cpc'[c] = "granted")
               => \A n \in groups[caction[c]] :
                    Cardinality(CancelledOwners(caction[c], n, KeyOf(c, n)) \ {c})
                      < limit[<<caction[c], n>>]]_vars

\* a dispatch is about to try a gate that an instance fills whose context
\* was cancelled and whose action has not returned
C24_Witness ==
  \E c, c2 \in Calls :
    /\ cpc[c] = "iter" /\ caction[c] = caction[c2]
    /\ c2 \in CancelledInstances /\ cpc[c2] = "running"
    /\ \E n \in todo[c] :
         /\ KeyOf(c, n) = KeyOf(c2, n)
         /\ Cardinality(CancelledOwners(caction[c], n, KeyOf(c, n))) = limit[<<caction[c], n>>]

\* the steps the goroutine that called Send takes itself
SendSteps(s) ==
  \/ SpawnActionBegin(s)
  \/ spc[s] = "acquiring" /\ GroupsTryAcquireIter(scall[s])
  \/ spc[s] = "acquiring" /\ GroupsRollback(scall[s])
  \/ SpawnActionFinish(s)
  \/ SendReturn(s)

\* an upper bound of the steps TryAcquire of call c has left
CallWork(c) ==
  CASE cpc[c] = "iter" -> 2 * Cardinality(todo[c]) + Len(acquiredGroups[c]) + 1
    [] cpc[c] = "rollback" -> Len(acquiredGroups[c]) - ridx[c] + 1
    [] OTHER -> 0

\* an upper bound of the steps one spawnAction takes
SpawnWork == 2 * Cardinality(Names) + 3

\* an upper bound of the steps the Send of s has left
SendWork(s) ==
  CASE spc[s] = "loop" -> 1 + SpawnWork * Len(squeue[s])
    [] spc[s] = "acquiring" -> 2 + SpawnWork * (Len(squeue[s]) - 1) + CallWork(scall[s])
    [] OTHER -> 0

\* C25: Send never waits: whatever the gates hold and whatever the spawned
\* actions do, a Send in progress always has a step of its own to take, every
\* such step brings it closer to its return and no step of anything else
\* sets it back, so it returns after a bounded number of its own steps (one
\* admission attempt per bound action), also while every instance is still
\* running and every gate is full.
C25_SendNeverWaits ==
  /\ [](\A s \in Senders :
          spc[s] # "idle" => ENABLED (SendSteps(s) /\ SendWork(s)' < SendWork(s)))
  /\ [][\A s \in Senders :
          /\ SendWork(s)' <= SendWork(s) \/ spc[s] = "idle"
          /\ (spc[s] # "idle" /\ <<spc[s], squeue[s], scall[s]>> # <<spc'[s], squeue'[s], scall'[s]>>)
               => SendWork(s)' < SendWork(s)
          /\ (spc[s] # "idle" /\ spc'[s] = "idle")
               => sspawned[s] + sdropped[s] = sbound[s]]_vars

\* a Send returned after dropping a dispatch while the instance that fills
\* the gate is still running
C25_Witness ==
  \E s \in Senders, c \in Calls :
    /\ spc[s] = "idle" /\ sret[s] = "true" /\ sdropped[s] >= 1
    /\ cpc[c] = "running"
    /\ \E n \in groups[caction[c]] :
         Held(<<caction[c], n>>, KeyOf(c, n)) = limit[<<caction[c], n>>]

\* the action keys of q in the order of their first occurrence
RECURSIVE FirstOccurrences(_)
FirstOccurrences(q) ==
  IF q = <<>> THEN <<>>
  ELSE LET r == FirstOccurrences(SubSeq(q, 1, Len(q) - 1))
           a == q[Len(q)] IN
         IF \E i \in 1..Len(r) : r[i] = a THEN r ELSE Append(r, a)

\* q is what is left of r after some of its first elements were taken
IsSuffix(q, r) ==
  Len(q) <= Len(r) /\ q = SubSeq(r, Len(r) - Len(q) + 1, Len(r))

\* C26: the actions of an event form an ordered set: a Send walks the action
\* keys bound to its event in the order they were first registered, each one
\* once, and so makes at most one admission attempt per bound action.
C26_BoundActionsAreAnOrderedSet ==
  \A s \in Senders :
    /\ spc[s] # "idle"
         => IsSuffix(squeue[s], FirstOccurrences(triggers[sevent[s]]))
    /\ (sevent[s] \in DOMAIN triggers /\ sret[s] # "false")
         => sspawned[s] + sdropped[s]
              <= Cardinality({triggers[sevent[s]][i] : i \in 1..Len(triggers[sevent[s]])})

\* C27: a Send never observes a registration half-applied: whenever it finds
\* an action key bound to its event, the action and its admission set are
\* both stored, so no Send fails on a missing entry and the program goes on.
C27_RegistrationIsAtomicForSend ==
  /\ ~panicked
  /\ ~crashed
  /\ \A s \in Senders :
       (spc[s] = "loop" /\ squeue[s] # <<>>)
         => (Head(squeue[s]) \in actions /\ LimitsStored(Head(squeue[s])))

\* members of the admission set of action a that have no key function
NoKeyMembers(a) == {n \in groups[a] : keyFunc[<<a, n>>] = "nil"}

\* C28: a named group without a key function counts every payload under the
\* one key "", in a gate of its own: it never has a channel for another key,
\* its held count is bounded by its own capacity whatever the global group ""
\* holds, and an acquisition changes the count of one gate only; a call is
\* granted only with a slot taken in both and is denied only at a full gate.
C28_NamedNoKeyGroupIsItsOwnGate ==
  /\ [](\A a \in ActionKeys : \A n \in NoKeyMembers(a) :
          /\ \A c \in Calls : (caction[c] = a /\ cpc[c] # "free") => KeyOf(c, n) = ""
          /\ \A k \in Keys \ {""} : semaphores[<<a, n>>][k] = Absent
          /\ Held(<<a, n>>, "") <= limit[<<a, n>>])
  /\ [][\A c \in Calls :
          /\ (cpc[c] = "iter" /\ cpc'[c] = "granted")
               => \A n \in groups[caction[c]] :
                    Holding(c, n)' /\ Held(<<caction[c], n>>, KeyOf(c, n))' <= limit[<<caction[c], n>>]
          /\ (cpc[c] = "iter" /\ cpc'[c] \in {"denied", "rollback"})
               => \E n \in todo[c] :
                    Held(<<caction[c], n>>, KeyOf(c, n)) >= limit[<<caction[c], n>>]
          /\ (cpc[c] = "iter" /\ Len(acquiredGroups'[c]) > Len(acquiredGroups[c]))
               => \E n \in todo[c] :
                    \A g \in Gates : g # <<caction[c], n>> => semaphores'[g] = semaphores[g]]_vars

\* next to a global limit with a free slot, the named group without a key
\* function is full because of a call with another payload, and a call that
\* already took its global slot is about to try it
C28_Witness ==
  \E c1, c2 \in Calls :
    /\ groups["a1"] = {"", "user"} /\ keyFunc[<<"a1", "user">>] = "nil"
    /\ cpc[c1] = "granted" /\ ~released[c1]
    /\ cpc[c2] = "iter" /\ todo[c2] = {"user"} /\ cdata[c2] # cdata[c1]
    /\ Held(<<"a1", "user">>, "") = limit[<<"a1", "user">>]
    /\ Held(<<"a1", "">>, "") <= limit[<<"a1", "">>]
    /\ Held(<<"a1", "">>, "") # Held(<<"a1", "user">>, "")

\* what the logger is to be told about a dispatch of an action with groups,
\* in full: an admitted one and a denied one
AdmittedLog ==
  <<"waffle.action.spawned", "waffle.concurrency.acquire_success", "waffle.action.started",
    "waffle.concurrency.released">>

DeniedLog == <<"waffle.action.spawned", "waffle.concurrency.acquire_failed">>

\* q is the beginning of r
IsPrefix(q, r) == Len(q) <= Len(r) /\ q = SubSeq(r, 1, Len(q))

\* what the logger is told about the dispatch in slot c once it has reached
\* its present position
LogAt(c) ==
  CASE cpc[c] \in {"iter", "rollback", "granted", "denied"} -> SubSeq(AdmittedLog, 1, 1)
    [] cpc[c] = "spawned" -> SubSeq(AdmittedLog, 1, 2)
    [] cpc[c] \in {"running", "releasing"} -> SubSeq(AdmittedLog, 1, 3)
    [] OTHER -> <<>>

\* C29: with a logger, a dispatch of an action with groups is reported in
\* order: acquire_success, then action.started, then concurrency.released
\* for an admitted one, released being told only once the action has
\* returned and the slots are back; acquire_failed and nothing after it for a
\* denied one. Without a logger nothing is reported, and with or without it
\* a dispatch moves through the same stages and is admitted by the same rule.
C29_NotificationsAreOrdered ==
  /\ [](/\ \A c \in Calls :
             (logger = "set" /\ groups[caction[c]] # {}) => clog[c] = LogAt(c)
        /\ logger = "set" => flog \in {<<>>, AdmittedLog, DeniedLog, <<AdmittedLog[1], AdmittedLog[3]>>}
        /\ logger = "nil"
             => (flog = <<>> /\ \A c \in Calls : clog[c] = <<>>) /\ \A s \in Senders : slog[s] = <<>>)
  /\ [][/\ (flog' # flog /\ flog' = AdmittedLog)
             => \E c \in Calls :
                  /\ cpc[c] = "releasing" /\ ran[c] /\ cpc'[c] = "free"
                  /\ \A n \in groups[caction[c]] : ~Holding(c, n)'
        /\ (flog' # flog /\ flog' = DeniedLog)
             => \E c \in Calls : cpc[c] = "denied" /\ ~ran[c] /\ cpc'[c] = "free"
        /\ \A c \in Calls :
             /\ Stage(c) # StageNext(c) => <<Stage(c), StageNext(c)>> \in LifecycleMoves
             /\ (cpc[c] = "iter" /\ cpc'[c] \in {"denied", "rollback"})
                  => \E n \in todo[c] :
                       Held(<<caction[c], n>>, KeyOf(c, n)) >= limit[<<caction[c], n>>]]_vars

\* the logger has the full report of an admitted dispatch that is over, while
\* the report of the next dispatch has reached action.started
C29_Witness ==
  /\ logger = "set"
  /\ flog = AdmittedLog
  /\ \E c \in Calls : cpc[c] = "running" /\ clog[c] = SubSeq(AdmittedLog, 1, 3)

\* calls of the admission set of a that were already refused and still own
\* a slot of key k of member n, for the time of their roll-back
TransientOwners(a, n, k) == {c \in SlotOwners(a, n, k) : cpc[c] = "rollback"}

\* C30: concurrent TryAcquire calls on one admission set are linearizable:
\* a call is refused only at a gate that is full for a better reason than the
\* slots of calls that were themselves refused and are giving them back (so
\* two overlapping calls that would each be granted alone are never both
\* refused).
C30_TryAcquireIsLinearizable ==
  [][\A c \in Calls :
       (cpc[c] = "iter" /\ cpc'[c] \in {"denied", "rollback"})
         => \E n \in todo[c] :
              LET a == caction[c]
                  k == KeyOf(c, n) IN
                /\ Held(<<a, n>>, k) >= limit[<<a, n>>]
                /\ Held(<<a, n>>, k) - Cardinality(TransientOwners(a, n, k) \ {c})
                     >= limit[<<a, n>>]]_vars
\* C31: the release closure frees the slots its own call acquired: when no
\* other call touched a gate since the call began, each step of the closure
\* brings the counts of the member it releases back to what they were before
\* the call (the key acquired goes down by one, no other key changes) and
\* leaves every other member alone, whatever the payload holds by then.
C31_ReleaseFreesWhatWasAcquired ==
  [][\A c \in Calls :
       (cpc[c] = "releasing" /\ snap.owner = c
          /\ (ridx'[c] # ridx[c] \/ cpc'[c] # "releasing"))
         => \A a \in ActionKeys, n \in Names :
              (a = caction[c] /\ n = acquiredGroups[c][ridx[c]])
                => \A m \in Names, k \in Keys :
                     Held(<<a, m>>, k)'
                       = IF m = n THEN snap.held[m][k] ELSE Held(<<a, m>>, k)]_vars

\* C32: the registry is consistent: once a registration has returned, every
\* action key in the action list of any event has an entry in the action map
\* and an admission set that is not nil in the limits map, so a Send finds
\* the action of every key it ranges over, finds its admission set, and
\* never panics.
C32_RegistryIsConsistent ==
  /\ reg.pc = "idle"
       => \A e \in DOMAIN triggers :
            \A i \in 1..Len(triggers[e]) :
              /\ triggers[e][i] \in actions
              /\ groups[triggers[e][i]] # DOMAIN NilConcurrencyGroups
  /\ \A s \in Senders :
       (spc[s] = "loop" /\ squeue[s] # <<>>)
         => (Head(squeue[s]) \in actions /\ LimitsStored(Head(squeue[s])))
  /\ ~panicked

\* every member of the admission set of a had room for the key of payload d
\* when the counts were held
AllAdmit(a, d, held) ==
  \A n \in groups[a] : held[n][getKey(<<a, n>>, d)] < limit[<<a, n>>]

\* C33: in sequential use the result of TryAcquire on a set does not depend
\* on the order in which the members are visited: when no other call touched
\* a gate since the call began, whatever order the range loop took, the call
\* is granted exactly when every member had room for its key in the prior
\* state, and the held counts it leaves are the prior ones, plus one for the
\* key of each member when it was granted.
C33_OutcomeIgnoresVisitOrder ==
  [][\A c \in Calls, a \in ActionKeys :
       (/\ a = caction[c]
        /\ snap.owner = c
        /\ cpc[c] \in {"iter", "rollback"}
        /\ cpc'[c] \in {"granted", "denied"})
         => /\ cpc'[c] = "granted" <=> AllAdmit(a, cdata[c], snap.held)
            /\ \A n \in Names, k \in Keys :
                 Held(<<a, n>>, k)'
                   = IF /\ AllAdmit(a, cdata[c], snap.held)
                        /\ n \in groups[a]
                        /\ k = getKey(<<a, n>>, cdata[c])
                     THEN snap.held[n][k] + 1
                     ELSE snap.held[n][k]]_vars

\* a call on a set of two members was denied by the member visited second,
\* after the first had admitted it, while an earlier dispatch still runs: in
\* the other order it is denied at once
C33_Witness ==
  \E c \in Calls, r \in Calls :
    /\ cpc[c] = "denied" /\ snap.owner = c
    /\ Cardinality(groups[caction[c]]) = 2
    /\ snap.nacq = 1
    /\ r # c /\ cpc[r] = "running" /\ caction[r] = caction[c]
    /\ acquiredGroups[r] # <<>>

====
